---- MODULE Spec2Model ----
(***************************************************************************)
(* Model of the system-wide execution locks of ppyutil (src/execlock.py)   *)
(* and of the reentrancy harness they are built on (src/contextman.py).    *)
(*                                                                         *)
(* Part A  ExecutionLock: advisory file lock on one path, with the inode   *)
(*         identity check, the unlink on exclusive release, and the probes *)
(*         test_lockable and touch_lock.                                   *)
(*                                                                         *)
(* The file system is modelled by the inode found at the lock path (0 when *)
(* the path does not exist) and, per process, the inode its open           *)
(* descriptor refers to.  flock() acts on the inode of the descriptor, not *)
(* on the path.  Inode numbers carry no meaning beyond equality, so they  *)
(* are kept in a canonical form: 1 is the inode at the path, 2, 3, ... are *)
(* unlinked inodes that some descriptor still refers to.  Only the file at *)
(* the path has contents anybody reads.                                    *)
(*                                                                         *)
(* Part B  ExecutionCLock: the counted lock.  Its ledger file is read and  *)
(*         rewritten under a short exclusive flock; processes die and pids *)
(*         are reused with a later creation time.                          *)
(*                                                                         *)
(* Part C  RunLevelLock: the base lock, the counted run levels, the        *)
(*         running lock and the solo lock of one process group.            *)
(***************************************************************************)
EXTENDS Integers, FiniteSets, Sequences, TLC

\* ------------------------------------------------------------------ bounds
ELNumProcs == 2     \* processes using the one ExecutionLock path
MaxDepth == 2       \* nesting depth of enter calls on one instance

CLNumProcs == 2     \* pids using the one ExecutionCLock path
MaxCtime == 2       \* creation times (incarnations) a pid goes through
MaxCap == 2         \* largest max_count an instance is created with

RLNumProcs == 2     \* processes sharing one RunLevelLock path
MaxTimeout == 2     \* the timeout attribute, in units of check_interval
MaxNodes == 4       \* exit nodes registered in one DynamicContext
MaxSignals == 3     \* signals that arrive at a process using DeferSignals
NumLevels == 4      \* len(_level_list): unlocked, base and two real run levels

ELProcs == 1..ELNumProcs
CLProcs == 1..CLNumProcs
RLProcs == 1..RLNumProcs

VARIABLES
    elPath,         \* 1 if a file is at the lock path, 0 if none
    elFd,           \* elFd[p]: inode of p's open descriptor, 0 = none, 1 = the file at the path
    elFlock,        \* elFlock[p]: flock p holds on its descriptor: "none", "sh", "ex"
    elData,         \* pid written in the file at the path, 0 = empty or no file
    elPc,           \* elPc[p]: position of p inside an ExecutionLock method
    elOp,           \* elOp[p]: method in progress: "enter", "exit", "test", "touch"
    is_shared,      \* is_shared[p]: mode of the acquisition in progress / held (FALSE at rest)
    blocking,       \* blocking[p]: blocking attribute during a call (TRUE at rest)
    enter_count,    \* enter_count[p]: the harness's _enter_count
    depth,          \* depth[p]: enters that returned normally and were not yet exited
    ens_call,       \* ens_call[p]: ensure_locked call in progress: "lock", "unlock", "skip" (lock wanted, process exiting), "none"
    ens_last        \* ens_last[p]: what ens_call was if the last call that returned was ensure_locked, else "none"

ensVars == <<ens_call, ens_last>>

elVars == <<elPath, elFd, elFlock, elData, elPc, elOp, is_shared, blocking,
            enter_count, depth, ensVars>>

VARIABLES
    alive,          \* alive[p]: a process with pid p exists
    ctime,          \* ctime[p]: creation time of the current (or last) process with pid p
    our_ctime,      \* our_ctime[p]: ctime of ProcessID.ours in p, 0 = not known to p
    max_count,      \* max_count[p]: the instance's _max_count
    clBlocking,     \* clBlocking[p]: blocking attribute during a call (TRUE at rest)
    clLocked,       \* clLocked[p]: the instance's _locked flag
    clPath,         \* 1 if a file is at the ledger path, 0 if none
    clFile,         \* lines of the file at the ledger path (none if no file)
    clFd,           \* clFd[p]: inode of p's open descriptor, 0 = none, 1 = the file at the path
    clFlock,        \* clFlock[p]: p holds the exclusive flock on its descriptor
    clPc,           \* clPc[p]: position inside _update_lock_file
    clOp,           \* clOp[p]: "enter", "exit" or "none"
    clNew,          \* clNew[p]: new_contents computed by _edit_lock_contents
    clNewLocked,    \* clNewLocked[p]: the locked result of _edit_lock_contents
    cl_enter_count, \* cl_enter_count[p]: the harness's _enter_count
    clDepth,        \* clDepth[p]: enters that returned normally and were not yet exited
    clSwap,         \* lines of the file at the swap path (none if no file)
    clSignalled     \* clSignalled[p]: the last process with pid p was ended by SIGTERM

swapVars == <<clSwap, clSignalled>>

clVars == <<alive, ctime, our_ctime, max_count, clBlocking, clLocked, clPath, clFile,
            clFd, clFlock, clPc, clOp, clNew, clNewLocked, cl_enter_count, clDepth,
            swapVars>>


\* ------------------------------------------------------------ file system

\* A number no descriptor uses: the inode of a file just created.
NewInode == 2 + ELNumProcs + CLNumProcs

\* Canonical inode numbers for descriptors fd over processes procs, when the
\* inode at the path is path (0 = none): the path's inode becomes 1, the
\* others 2, 3, ... in the order of the first process referring to them.
NormFd(procs, path, fd) ==
    LET stale == {fd[p] : p \in procs} \ {0, path}
        first(i) == CHOOSE p \in procs : fd[p] = i /\ \A q \in procs : fd[q] = i => p <= q
        rank(i) == Cardinality({j \in stale : first(j) < first(i)})
    IN [p \in procs |-> IF fd[p] = 0 THEN 0
                         ELSE IF fd[p] = path THEN 1
                         ELSE 2 + rank(fd[p])]

NormPath(path) == IF path = 0 THEN 0 ELSE 1

\* flock(fd, LOCK_SH / LOCK_EX) can be granted: no conflicting lock on the inode.
FlockGrantable(p) ==
    \A q \in ELProcs \ {p} :
        elFd[q] = elFd[p] =>
            \/ elFlock[q] = "none"
            \/ (elFlock[q] = "sh" /\ is_shared[p])

\* ExecutionLock.locked: the portalocker handle holds an open, locked file.
locked(p) == elFlock[p] # "none"

\* Mutation of InodeValid: the lock is taken for valid without comparing inodes.
InodeValid_unchecked(p) == TRUE

\* os.stat(fh.fileno()).st_ino == os.stat(fh.name).st_ino
InodeValid(p) == elPath = elFd[p]

\* --------------------------------------------------------- initial state
ELInit ==
    /\ elPath = 0
    /\ elFd = [p \in ELProcs |-> 0]
    /\ elFlock = [p \in ELProcs |-> "none"]
    /\ elData = 0
    /\ elPc = [p \in ELProcs |-> "idle"]
    /\ elOp = [p \in ELProcs |-> "none"]
    /\ is_shared = [p \in ELProcs |-> FALSE]
    /\ blocking = [p \in ELProcs |-> TRUE]
    /\ enter_count = [p \in ELProcs |-> 0]
    /\ depth = [p \in ELProcs |-> 0]
    /\ ens_call = [p \in ELProcs |-> "none"]
    /\ ens_last = [p \in ELProcs |-> "none"]

\* ------------------------------------------------ reentrancy harness calls

\* A call of p other than ensure_locked starts, or a call of p raises.
ENSOther(p) ==
    /\ ens_call' = [ens_call EXCEPT ![p] = "none"]
    /\ ens_last' = [ens_last EXCEPT ![p] = "none"]

\* The call of p in progress returns normally.
ENSDone(p) ==
    /\ ens_last' = [ens_last EXCEPT ![p] = ens_call[p]]
    /\ ens_call' = [ens_call EXCEPT ![p] = "none"]

\* enter_wrapper, _enter_count becoming 1: the real __enter__ starts.
\* shared_lock and blocking are attributes the caller may have set before.
EL_enter_outer(p) ==
    /\ elPc[p] = "idle" /\ depth[p] < MaxDepth
    /\ enter_count[p] = 0
    /\ \E sh \in BOOLEAN, bl \in BOOLEAN :
          /\ is_shared' = [is_shared EXCEPT ![p] = sh]
          /\ blocking' = [blocking EXCEPT ![p] = bl]
    /\ enter_count' = [enter_count EXCEPT ![p] = 1]
    /\ elPc' = [elPc EXCEPT ![p] = "open"]
    /\ elOp' = [elOp EXCEPT ![p] = "enter"]
    /\ UNCHANGED <<elPath, elFd, elFlock, elData, depth>>
    /\ ENSOther(p)

\* enter_wrapper, _enter_count > 1 afterwards: returns _enter_result at once.
EL_enter_nested(p) ==
    /\ elPc[p] = "idle" /\ depth[p] < MaxDepth
    /\ enter_count[p] >= 1
    /\ enter_count' = [enter_count EXCEPT ![p] = @ + 1]
    /\ depth' = [depth EXCEPT ![p] = @ + 1]
    /\ UNCHANGED <<elPath, elFd, elFlock, elData, elPc, elOp, is_shared, blocking>>
    /\ ENSOther(p)

\* Mutation of DeletesLockFile: the file is deleted whatever the mode.
DeletesLockFile_any_mode(p) == locked(p)

\* The test of _delete_lock_file(self._is_shared): the handle is open and the
\* lock is not shared.
DeletesLockFile(p) == locked(p) /\ ~is_shared[p]

\* exit_wrapper with _enter_count = 1: the real __exit__ starts
\* (_delete_lock_file unlinks only a locked, exclusively taken file).
EL_exit_outer(p) ==
    /\ elPc[p] = "idle" /\ depth[p] > 0
    /\ enter_count[p] = 1
    /\ depth' = [depth EXCEPT ![p] = @ - 1]
    /\ elOp' = [elOp EXCEPT ![p] = "exit"]
    /\ elPc' = [elPc EXCEPT ![p] = IF DeletesLockFile(p) THEN "unlink" ELSE "close"]
    /\ UNCHANGED <<elPath, elFd, elFlock, elData, is_shared, blocking, enter_count>>
    /\ ENSOther(p)

\* exit_wrapper with _enter_count > 1: only decrements.
EL_exit_nested(p) ==
    /\ elPc[p] = "idle" /\ depth[p] > 0
    /\ enter_count[p] > 1
    /\ enter_count' = [enter_count EXCEPT ![p] = @ - 1]
    /\ depth' = [depth EXCEPT ![p] = @ - 1]
    /\ UNCHANGED <<elPath, elFd, elFlock, elData, elPc, elOp, is_shared, blocking>>
    /\ ENSOther(p)

\* ------------------------------------------------- steps on the lock file

\* portalocker acquire, first half: open the path, creating the file if absent.
EL_open(p) ==
    /\ elPc[p] = "open"
    /\ LET i == IF elPath # 0 THEN elPath ELSE NewInode
       IN /\ elFd' = NormFd(ELProcs, i, [elFd EXCEPT ![p] = i])
          /\ elPath' = NormPath(i)
    /\ elPc' = [elPc EXCEPT ![p] = "flock"]
    /\ UNCHANGED <<elFlock, elData, elOp, is_shared, blocking, enter_count, depth>>
    /\ UNCHANGED ensVars

\* Where a method goes once portalocker has the lock (the handle is set and
\* the file, opened with mode 'w', truncated).
ELAfterLock(p) ==
    IF elOp[p] = "enter" THEN "check"
    ELSE IF is_shared[p] THEN "close" ELSE "unlink"

\* portalocker acquire, second half: flock granted.
EL_flock(p) ==
    /\ elPc[p] = "flock"
    /\ FlockGrantable(p)
    /\ elFlock' = [elFlock EXCEPT ![p] = IF is_shared[p] THEN "sh" ELSE "ex"]
    /\ elData' = IF elFd[p] = elPath THEN 0 ELSE elData
    /\ elPc' = [elPc EXCEPT ![p] = ELAfterLock(p)]
    /\ UNCHANGED <<elPath, elFd, elOp, is_shared, blocking, enter_count, depth>>
    /\ UNCHANGED ensVars

\* flock refused with LOCK_NB (test_lockable always, enter and touch_lock when
\* blocking is false) and the attempts are used up: portalocker closes the
\* descriptor and raises.  __enter__ turns it into ExecLockError; the harness
\* has already counted the enter.
EL_flock_fail(p) ==
    /\ elPc[p] = "flock"
    /\ ~FlockGrantable(p)
    /\ elOp[p] = "test" \/ ~blocking[p]
    /\ elFd' = NormFd(ELProcs, elPath, [elFd EXCEPT ![p] = 0])
    /\ UNCHANGED elData
    /\ elPc' = [elPc EXCEPT ![p] = "idle"]
    /\ elOp' = [elOp EXCEPT ![p] = "none"]
    /\ is_shared' = [is_shared EXCEPT ![p] = FALSE]
    /\ blocking' = [blocking EXCEPT ![p] = TRUE]
    /\ UNCHANGED <<elPath, elFlock, enter_count, depth>>
    /\ ENSOther(p)

\* __enter__: the inode comparison after the lock was obtained.  Equal: the
\* lock is ours (a shared enter returns here).  Different or no file at the
\* path: the lock was stolen, go round again.
EL_check(p) ==
    /\ elPc[p] = "check"
    /\ IF InodeValid(p)
       THEN IF is_shared[p]
            THEN /\ elPc' = [elPc EXCEPT ![p] = "idle"]
                 /\ elOp' = [elOp EXCEPT ![p] = "none"]
                 /\ depth' = [depth EXCEPT ![p] = @ + 1]
                 /\ blocking' = [blocking EXCEPT ![p] = TRUE]
                 /\ ENSDone(p)
            ELSE /\ elPc' = [elPc EXCEPT ![p] = "write"]
                 /\ UNCHANGED <<elOp, depth, blocking, ensVars>>
       ELSE /\ elPc' = [elPc EXCEPT ![p] = "retry"]
            /\ UNCHANGED <<elOp, depth, blocking, ensVars>>
    /\ UNCHANGED <<elPath, elFd, elFlock, elData, is_shared, enter_count>>

\* __enter__: stack.close() releases the stolen lock, then sleep and retry.
EL_retry(p) ==
    /\ elPc[p] = "retry"
    /\ elFlock' = [elFlock EXCEPT ![p] = "none"]
    /\ elFd' = NormFd(ELProcs, elPath, [elFd EXCEPT ![p] = 0])
    /\ UNCHANGED elData
    /\ elPc' = [elPc EXCEPT ![p] = "open"]
    /\ UNCHANGED <<elPath, elOp, is_shared, blocking, enter_count, depth>>
    /\ UNCHANGED ensVars

\* __enter__: an exclusive holder writes its pid, then __enter__ returns.
EL_write(p) ==
    /\ elPc[p] = "write"
    /\ elData' = IF elFd[p] = elPath THEN p ELSE elData
    /\ elPc' = [elPc EXCEPT ![p] = "idle"]
    /\ elOp' = [elOp EXCEPT ![p] = "none"]
    /\ depth' = [depth EXCEPT ![p] = @ + 1]
    /\ blocking' = [blocking EXCEPT ![p] = TRUE]
    /\ UNCHANGED <<elPath, elFd, elFlock, is_shared, enter_count>>
    /\ ENSDone(p)

\* _delete_lock_file: os.unlink(fh.name) removes whatever file is at the path.
EL_unlink(p) ==
    /\ elPc[p] = "unlink"
    /\ elPath' = 0
    /\ elFd' = NormFd(ELProcs, 0, elFd)
    /\ elData' = 0
    /\ elPc' = [elPc EXCEPT ![p] = "close"]
    /\ UNCHANGED <<elFlock, elOp, is_shared, blocking, enter_count, depth>>
    /\ UNCHANGED ensVars

\* portalocker release: unlock and close.  After the real __exit__ the
\* harness decrements _enter_count.
EL_close(p) ==
    /\ elPc[p] = "close"
    /\ elFlock' = [elFlock EXCEPT ![p] = "none"]
    /\ elFd' = NormFd(ELProcs, elPath, [elFd EXCEPT ![p] = 0])
    /\ UNCHANGED elData
    /\ elPc' = [elPc EXCEPT ![p] = "idle"]
    /\ elOp' = [elOp EXCEPT ![p] = "none"]
    /\ enter_count' = [enter_count EXCEPT ![p] = IF elOp[p] = "exit" THEN @ - 1 ELSE @]
    /\ is_shared' = [is_shared EXCEPT ![p] = FALSE]
    /\ blocking' = [blocking EXCEPT ![p] = TRUE]
    /\ UNCHANGED <<elPath, depth>>
    /\ ENSDone(p)

\* test_lockable(shared_lock) / touch_lock(shared_lock) on an instance whose
\* handle is not open: configure the flags and start the acquisition.
EL_test_lockable(p) ==
    /\ elPc[p] = "idle" /\ ~locked(p)
    /\ \E sh \in BOOLEAN : is_shared' = [is_shared EXCEPT ![p] = sh]
    /\ elOp' = [elOp EXCEPT ![p] = "test"]
    /\ elPc' = [elPc EXCEPT ![p] = "open"]
    /\ UNCHANGED <<elPath, elFd, elFlock, elData, blocking, enter_count, depth>>
    /\ ENSOther(p)

EL_touch_lock(p) ==
    /\ elPc[p] = "idle" /\ ~locked(p)
    /\ \E sh \in BOOLEAN, bl \in BOOLEAN :
          /\ is_shared' = [is_shared EXCEPT ![p] = sh]
          /\ blocking' = [blocking EXCEPT ![p] = bl]
    /\ elOp' = [elOp EXCEPT ![p] = "touch"]
    /\ elPc' = [elPc EXCEPT ![p] = "open"]
    /\ UNCHANGED <<elPath, elFd, elFlock, elData, enter_count, depth>>
    /\ ENSOther(p)

\* ----------------------------------------------------------- ensure_locked

\* ensure_locked(lock, during_exit) is called; exiting is process_exiting().
\* The call then takes one of the branches below.
EL_ensure_locked(p, lock, during_exit, exiting) ==
    /\ elPc[p] = "idle"
    /\ (lock /\ ~locked(p)) => depth[p] < MaxDepth
    /\ elPc' = [elPc EXCEPT ![p] = "ensure"]
    /\ ens_call' = [ens_call EXCEPT ![p] =
                        IF ~lock THEN "unlock"
                        ELSE IF during_exit \/ ~exiting THEN "lock" ELSE "skip"]
    /\ UNCHANGED <<elPath, elFd, elFlock, elData, elOp, is_shared, blocking,
                   enter_count, depth, ens_last>>

\* if lock and not self.locked and (during_exit or not process_exiting())
EnsureEnters(p) == ens_call[p] = "lock" /\ ~locked(p)

\* if not lock and self.locked
EnsureExits(p) == ens_call[p] = "unlock" /\ locked(p)

\* self.__enter__() through enter_wrapper, _enter_count becoming 1: the real
\* __enter__ starts with the instance's shared_lock and blocking attributes.
EL_ensure_enter_outer(p) ==
    /\ elPc[p] = "ensure" /\ EnsureEnters(p)
    /\ enter_count[p] = 0
    /\ \E sh \in BOOLEAN, bl \in BOOLEAN :
          /\ is_shared' = [is_shared EXCEPT ![p] = sh]
          /\ blocking' = [blocking EXCEPT ![p] = bl]
    /\ enter_count' = [enter_count EXCEPT ![p] = 1]
    /\ elPc' = [elPc EXCEPT ![p] = "open"]
    /\ elOp' = [elOp EXCEPT ![p] = "enter"]
    /\ UNCHANGED <<elPath, elFd, elFlock, elData, depth, ensVars>>

\* self.__enter__() through enter_wrapper, _enter_count > 1 afterwards: the
\* wrapper only counts and ensure_locked returns.
EL_ensure_enter_nested(p) ==
    /\ elPc[p] = "ensure" /\ EnsureEnters(p)
    /\ enter_count[p] >= 1
    /\ enter_count' = [enter_count EXCEPT ![p] = @ + 1]
    /\ depth' = [depth EXCEPT ![p] = @ + 1]
    /\ elPc' = [elPc EXCEPT ![p] = "idle"]
    /\ ENSDone(p)
    /\ UNCHANGED <<elPath, elFd, elFlock, elData, elOp, is_shared, blocking>>

\* self.__exit__(None, None, None) through exit_wrapper with _enter_count = 1:
\* the real __exit__ starts.
EL_ensure_exit_outer(p) ==
    /\ elPc[p] = "ensure" /\ EnsureExits(p)
    /\ enter_count[p] = 1
    /\ depth' = [depth EXCEPT ![p] = @ - 1]
    /\ elOp' = [elOp EXCEPT ![p] = "exit"]
    /\ elPc' = [elPc EXCEPT ![p] = IF DeletesLockFile(p) THEN "unlink" ELSE "close"]
    /\ UNCHANGED <<elPath, elFd, elFlock, elData, is_shared, blocking, enter_count, ensVars>>

\* self.__exit__(None, None, None) through exit_wrapper with _enter_count > 1:
\* the wrapper only decrements and ensure_locked returns.
EL_ensure_exit_nested(p) ==
    /\ elPc[p] = "ensure" /\ EnsureExits(p)
    /\ enter_count[p] > 1
    /\ enter_count' = [enter_count EXCEPT ![p] = @ - 1]
    /\ depth' = [depth EXCEPT ![p] = @ - 1]
    /\ elPc' = [elPc EXCEPT ![p] = "idle"]
    /\ ENSDone(p)
    /\ UNCHANGED <<elPath, elFd, elFlock, elData, elOp, is_shared, blocking>>

\* Neither condition of ensure_locked holds: it returns without doing anything.
EL_ensure_nothing(p) ==
    /\ elPc[p] = "ensure" /\ ~EnsureEnters(p) /\ ~EnsureExits(p)
    /\ elPc' = [elPc EXCEPT ![p] = "idle"]
    /\ ENSDone(p)
    /\ UNCHANGED <<elPath, elFd, elFlock, elData, elOp, is_shared, blocking,
                   enter_count, depth>>


\* ======================================================================
\* Part B: ExecutionCLock
\* ======================================================================

\* A ledger line "<pid> <ctime or 0> <instance id> <max_count>".
CLLine(pid, ct, iid, mx) == [pid |-> pid, ctime |-> ct, iid |-> iid, max |-> mx]

\* ProcessID: pid and creation time, 0 standing for an unknown one (None, or
\* the 0 written in a line: both are falsy).
ProcessID(pid, ct) == [pid |-> pid, ctime |-> ct]

\* Mutation of ProcessID_eq: any two identities with the same pid are equal.
ProcessID_eq_pid_only(a, b) == a.pid = b.pid

\* ProcessID.__eq__
ProcessID_eq(a, b) ==
    a.pid = b.pid /\ (a.ctime = b.ctime \/ (a.ctime = 0 /\ b.ctime = 0))

\* id(self): one instance per process; the instance of a later process with
\* the same pid is taken to have another id.
our_iid(p) == 100 * ctime[p] + p

\* self._our_id
our_id(p) == ProcessID(p, our_ctime[p])

\* f"{self._our_str} {self._max_count}\n"
our_line(p) == CLLine(p, our_ctime[p], our_iid(p), max_count[p])

\* ProcessID.from_pid(pid) for a pid that exists; readable says whether
\* psutil reports the creation time to the caller.
from_pid(pid, readable) == ProcessID(pid, IF readable THEN ctime[pid] ELSE 0)

\* Mutation of LinePassesLiveness: a line passes if its pid exists, whatever
\* creation time it records.
LinePassesLiveness_pid_exists(line, readable) == alive[line.pid]

\* The liveness test of _edit_lock_contents: from_pid raises OSError for a pid
\* that does not exist, and the identity read must equal the line's.
LinePassesLiveness(line, readable) ==
    /\ alive[line.pid]
    /\ ProcessID_eq(from_pid(line.pid, readable), ProcessID(line.pid, line.ctime))

\* Mutation of IsOurLine: no line is recognised as the caller's own.
IsOurLine_never(p, line) == FALSE

\* The line is the caller's own: same instance id and equal ProcessID.
IsOurLine(p, line) ==
    line.iid = our_iid(p) /\ ProcessID_eq(ProcessID(line.pid, line.ctime), our_id(p))

\* Lines of contents that _edit_lock_contents retains.
RECURSIVE RetainLines(_, _, _, _)
RetainLines(p, contents, enter, readable) ==
    IF contents = <<>> THEN <<>>
    ELSE LET line == Head(contents)
             rest == RetainLines(p, Tail(contents), enter, readable)
         IN IF IsOurLine(p, line) THEN rest
            ELSE IF enter /\ ~LinePassesLiveness(line, readable) THEN rest
            ELSE <<line>> \o rest

SeqMin(start, seq) ==
    IF seq = <<>> THEN start
    ELSE LET m == CHOOSE x \in {seq[i].max : i \in 1..Len(seq)} :
                      \A j \in 1..Len(seq) : x <= seq[j].max
         IN IF m < start THEN m ELSE start

\* max_allowed: the smallest of the own max_count and the retained lines'.
MaxAllowed(p, retained) == SeqMin(max_count[p], retained)

\* Mutation of MayAppend: the cap test lets one holder too many in.
MayAppend_off_by_one(p, retained, enter) ==
    enter /\ Len(retained) <= MaxAllowed(p, retained)

\* enter and len(new_contents) < max_allowed
MayAppend(p, retained, enter) ==
    enter /\ Len(retained) < MaxAllowed(p, retained)

\* _edit_lock_contents: the new contents.
EditLockContents(p, contents, enter, readable) ==
    LET retained == RetainLines(p, contents, enter, readable)
    IN IF MayAppend(p, retained, enter)
       THEN Append(retained, our_line(p))
       ELSE retained

\* _edit_lock_contents: the locked result.
EditLocked(p, contents, enter, readable) ==
    MayAppend(p, RetainLines(p, contents, enter, readable), enter)

\* The ledger as found at the path (no file: no lines).
Ledger == clFile

CLInit ==
    /\ alive = [p \in CLProcs |-> FALSE]
    /\ ctime = [p \in CLProcs |-> 0]
    /\ our_ctime = [p \in CLProcs |-> 0]
    /\ max_count = [p \in CLProcs |-> 1]
    /\ clBlocking = [p \in CLProcs |-> TRUE]
    /\ clLocked = [p \in CLProcs |-> FALSE]
    /\ clPath = 0
    /\ clFile = <<>>
    /\ clFd = [p \in CLProcs |-> 0]
    /\ clFlock = [p \in CLProcs |-> FALSE]
    /\ clPc = [p \in CLProcs |-> "idle"]
    /\ clOp = [p \in CLProcs |-> "none"]
    /\ clNew = [p \in CLProcs |-> <<>>]
    /\ clNewLocked = [p \in CLProcs |-> FALSE]
    /\ cl_enter_count = [p \in CLProcs |-> 0]
    /\ clDepth = [p \in CLProcs |-> 0]
    /\ clSwap = <<>>
    /\ clSignalled = [p \in CLProcs |-> FALSE]

\* A process with pid p starts and constructs its ExecutionCLock
\* (__init__: max_count, blocking; ProcessID.ours with or without ctime).
CL_spawn(p) ==
    /\ ~alive[p] /\ ctime[p] < MaxCtime
    /\ alive' = [alive EXCEPT ![p] = TRUE]
    /\ ctime' = [ctime EXCEPT ![p] = @ + 1]
    /\ \E known \in BOOLEAN, mx \in 1..MaxCap :
          /\ our_ctime' = [our_ctime EXCEPT ![p] = IF known THEN ctime'[p] ELSE 0]
          /\ max_count' = [max_count EXCEPT ![p] = mx]
    /\ UNCHANGED <<clBlocking, clLocked, clPath, clFile, clFd, clFlock, clPc, clOp, clNew,
                   clNewLocked, cl_enter_count, clDepth>>
    /\ clSignalled' = [clSignalled EXCEPT ![p] = FALSE]
    /\ UNCHANGED clSwap

\* The process dies (at any point): the kernel closes its descriptor and
\* drops its flock; nothing of the instance remains.  The files stay as they
\* are, the swap file included.
CLDies(p) ==
    /\ alive[p]
    /\ alive' = [alive EXCEPT ![p] = FALSE]
    /\ our_ctime' = [our_ctime EXCEPT ![p] = 0]
    /\ max_count' = [max_count EXCEPT ![p] = 1]
    /\ clBlocking' = [clBlocking EXCEPT ![p] = TRUE]
    /\ clLocked' = [clLocked EXCEPT ![p] = FALSE]
    /\ clFd' = NormFd(CLProcs, clPath, [clFd EXCEPT ![p] = 0])
    /\ clFlock' = [clFlock EXCEPT ![p] = FALSE]
    /\ UNCHANGED clFile
    /\ clPc' = [clPc EXCEPT ![p] = "idle"]
    /\ clOp' = [clOp EXCEPT ![p] = "none"]
    /\ clNew' = [clNew EXCEPT ![p] = <<>>]
    /\ clNewLocked' = [clNewLocked EXCEPT ![p] = FALSE]
    /\ cl_enter_count' = [cl_enter_count EXCEPT ![p] = 0]
    /\ clDepth' = [clDepth EXCEPT ![p] = 0]
    /\ UNCHANGED <<ctime, clPath>>

\* The process is killed or crashes.
CL_kill(p) ==
    /\ CLDies(p)
    /\ UNCHANGED swapVars

\* SIGTERM arrives.  Nothing in _update_lock_file, ExecutionCLock or its
\* callers installs a handler or enters a DeferSignals region, so the default
\* disposition acts at once, wherever the process is.
CL_term(p) ==
    /\ CLDies(p)
    /\ clSignalled' = [clSignalled EXCEPT ![p] = TRUE]
    /\ UNCHANGED clSwap

\* enter_wrapper, _enter_count becoming 1: __enter__ calls _update_lock_file(True).
CL_enter_outer(p) ==
    /\ alive[p] /\ clPc[p] = "idle" /\ clDepth[p] < MaxDepth
    /\ cl_enter_count[p] = 0
    /\ cl_enter_count' = [cl_enter_count EXCEPT ![p] = 1]
    /\ \E bl \in BOOLEAN : clBlocking' = [clBlocking EXCEPT ![p] = bl]
    /\ clOp' = [clOp EXCEPT ![p] = "enter"]
    /\ clPc' = [clPc EXCEPT ![p] = "open"]
    /\ UNCHANGED <<alive, ctime, our_ctime, max_count, clLocked, clPath,
                   clFile, clFd, clFlock, clNew, clNewLocked, clDepth>>
    /\ UNCHANGED swapVars

\* enter_wrapper, nested: returns _enter_result without calling __enter__.
CL_enter_nested(p) ==
    /\ alive[p] /\ clPc[p] = "idle" /\ clDepth[p] < MaxDepth
    /\ cl_enter_count[p] >= 1
    /\ cl_enter_count' = [cl_enter_count EXCEPT ![p] = @ + 1]
    /\ clDepth' = [clDepth EXCEPT ![p] = @ + 1]
    /\ UNCHANGED <<alive, ctime, our_ctime, max_count, clBlocking, clLocked, clPath,
                   clFile, clFd, clFlock, clPc, clOp, clNew, clNewLocked>>
    /\ UNCHANGED swapVars

\* exit_wrapper with _enter_count = 1: __exit__ calls _update_lock_file(False).
CL_exit_outer(p) ==
    /\ alive[p] /\ clPc[p] = "idle" /\ clDepth[p] > 0
    /\ cl_enter_count[p] = 1
    /\ clDepth' = [clDepth EXCEPT ![p] = @ - 1]
    /\ \E bl \in BOOLEAN : clBlocking' = [clBlocking EXCEPT ![p] = bl]
    /\ clOp' = [clOp EXCEPT ![p] = "exit"]
    /\ clPc' = [clPc EXCEPT ![p] = "open"]
    /\ UNCHANGED <<alive, ctime, our_ctime, max_count, clLocked, clPath,
                   clFile, clFd, clFlock, clNew, clNewLocked, cl_enter_count>>
    /\ UNCHANGED swapVars

\* exit_wrapper, nested: only decrements.
CL_exit_nested(p) ==
    /\ alive[p] /\ clPc[p] = "idle" /\ clDepth[p] > 0
    /\ cl_enter_count[p] > 1
    /\ cl_enter_count' = [cl_enter_count EXCEPT ![p] = @ - 1]
    /\ clDepth' = [clDepth EXCEPT ![p] = @ - 1]
    /\ UNCHANGED <<alive, ctime, our_ctime, max_count, clBlocking, clLocked, clPath,
                   clFile, clFd, clFlock, clPc, clOp, clNew, clNewLocked>>
    /\ UNCHANGED swapVars

\* with self._lock, first half: open the ledger path with O_CREAT.
CL_open(p) ==
    /\ clPc[p] = "open"
    /\ LET i == IF clPath # 0 THEN clPath ELSE NewInode
       IN /\ clFd' = NormFd(CLProcs, i, [clFd EXCEPT ![p] = i])
          /\ clPath' = NormPath(i)
    /\ clPc' = [clPc EXCEPT ![p] = "flock"]
    /\ UNCHANGED <<alive, ctime, our_ctime, max_count, clBlocking, clLocked, clFile,
                   clFlock, clOp, clNew, clNewLocked, cl_enter_count, clDepth>>
    /\ UNCHANGED swapVars

CLFlockGrantable(p) ==
    \A q \in CLProcs \ {p} : clFd[q] = clFd[p] => ~clFlock[q]

\* with self._lock, second half: the exclusive flock is granted.
CL_flock(p) ==
    /\ clPc[p] = "flock"
    /\ CLFlockGrantable(p)
    /\ clFlock' = [clFlock EXCEPT ![p] = TRUE]
    /\ clPc' = [clPc EXCEPT ![p] = "validate"]
    /\ UNCHANGED <<alive, ctime, our_ctime, max_count, clBlocking, clLocked, clPath,
                   clFile, clFd, clOp, clNew, clNewLocked, cl_enter_count, clDepth>>
    /\ UNCHANGED swapVars

\* The call ends with ExecLockError("Timed out ..."): the harness has counted
\* an enter, and has not yet uncounted an exit.
CLRaiseTimeout(p) ==
    /\ clFd' = NormFd(CLProcs, clPath, [clFd EXCEPT ![p] = 0])
    /\ clFlock' = [clFlock EXCEPT ![p] = FALSE]
    /\ UNCHANGED clFile
    /\ clPc' = [clPc EXCEPT ![p] = "idle"]
    /\ clOp' = [clOp EXCEPT ![p] = "none"]
    /\ clNew' = [clNew EXCEPT ![p] = <<>>]
    /\ clNewLocked' = [clNewLocked EXCEPT ![p] = FALSE]
    /\ clBlocking' = [clBlocking EXCEPT ![p] = TRUE]
    /\ UNCHANGED <<alive, ctime, our_ctime, max_count, clLocked, clPath,
                   cl_enter_count, clDepth>>
    /\ UNCHANGED swapVars

\* blocking = False: flock refused until the timeout, portalocker raises
\* LockException.
CL_flock_timeout(p) ==
    /\ clPc[p] = "flock"
    /\ ~CLFlockGrantable(p) /\ ~clBlocking[p]
    /\ CLRaiseTimeout(p)

\* valid_lock: the descriptor's inode is the one at the path.  If it is not,
\* the with block ends (release) and the loop sleeps.
CLValidLock(p) == clPath = clFd[p]

CL_validate(p) ==
    /\ clPc[p] = "validate"
    /\ IF CLValidLock(p)
       THEN /\ clPc' = [clPc EXCEPT ![p] = "edit"]
            /\ UNCHANGED <<clFd, clFlock, clFile>>
       ELSE /\ clPc' = [clPc EXCEPT ![p] = "sleep"]
            /\ clFd' = NormFd(CLProcs, clPath, [clFd EXCEPT ![p] = 0])
            /\ clFlock' = [clFlock EXCEPT ![p] = FALSE]
            /\ UNCHANGED clFile
    /\ UNCHANGED <<alive, ctime, our_ctime, max_count, clBlocking, clLocked, clPath,
                   clOp, clNew, clNewLocked, cl_enter_count, clDepth>>
    /\ UNCHANGED swapVars

\* lock_contents = list(fh); _edit_lock_contents(lock_contents, enter).
CL_edit(p) ==
    /\ clPc[p] = "edit"
    /\ \E readable \in BOOLEAN :
          /\ clNew' = [clNew EXCEPT ![p] =
                EditLockContents(p, clFile, clOp[p] = "enter", readable)]
          /\ clNewLocked' = [clNewLocked EXCEPT ![p] =
                EditLocked(p, clFile, clOp[p] = "enter", readable)]
    /\ clPc' = [clPc EXCEPT ![p] = "commit"]
    /\ UNCHANGED <<alive, ctime, our_ctime, max_count, clBlocking, clLocked, clPath,
                   clFile, clFd, clFlock, clOp, cl_enter_count, clDepth>>
    /\ UNCHANGED swapVars

\* The rewrite: changed non-empty contents go to the swap file, which is
\* renamed over the path (a new inode); empty contents unlink the path.
\* Then self._locked is set.
CL_commit(p) ==
    /\ clPc[p] = "commit"
    /\ IF clNew[p] # <<>>
       THEN /\ IF clNew[p] # clFile
               THEN /\ clPath' = 1
                    /\ clFd' = NormFd(CLProcs, NewInode, clFd)
                    /\ clFile' = clNew[p]
               ELSE UNCHANGED <<clPath, clFd, clFile>>
            /\ clLocked' = [clLocked EXCEPT ![p] = clNewLocked[p]]
       ELSE /\ clPath' = 0
            /\ clFd' = NormFd(CLProcs, 0, clFd)
            /\ clFile' = <<>>
            /\ clLocked' = [clLocked EXCEPT ![p] = FALSE]
    /\ clPc' = [clPc EXCEPT ![p] = "finish"]
    /\ UNCHANGED <<alive, ctime, our_ctime, max_count, clBlocking, clFlock,
                   clOp, clNew, clNewLocked, cl_enter_count, clDepth>>
    /\ UNCHANGED swapVars

\* if new_contents and new_contents != lock_contents: the rewrite goes
\* through the swap file.
CLNeedsSwap(p) == clNew[p] # <<>> /\ clNew[p] # clFile

\* The rewrite when no swap file is needed: unchanged contents are left, empty
\* contents unlink the path.
CL_commit_kept(p) ==
    /\ ~CLNeedsSwap(p)
    /\ CL_commit(p)

\* open(self._lock_path_swp, 'w'): the swap file is created or truncated.
CL_swap_open(p) ==
    /\ clPc[p] = "commit" /\ CLNeedsSwap(p)
    /\ clSwap' = <<>>
    /\ clPc' = [clPc EXCEPT ![p] = "swap"]
    /\ UNCHANGED <<alive, ctime, our_ctime, max_count, clBlocking, clLocked, clPath, clFile,
                   clFd, clFlock, clOp, clNew, clNewLocked, cl_enter_count, clDepth,
                   clSignalled>>

\* fhswp.writelines(new_contents), one line reaching the swap file at a time.
CL_swap_write(p) ==
    /\ clPc[p] = "swap" /\ Len(clSwap) < Len(clNew[p])
    /\ clSwap' = Append(clSwap, clNew[p][Len(clSwap) + 1])
    /\ UNCHANGED <<alive, ctime, our_ctime, max_count, clBlocking, clLocked, clPath, clFile,
                   clFd, clFlock, clPc, clOp, clNew, clNewLocked, cl_enter_count, clDepth,
                   clSignalled>>

\* Mutation of SwapComplete: the rename does not wait for the end of the write.
SwapComplete_any(p) == TRUE

\* The with block of the swap file has ended: every line is written.
SwapComplete(p) == clSwap = clNew[p]

\* os.replace(self._lock_path_swp, self._lock.fh.name): the swap file becomes
\* the file at the path (a new inode) in one step; then self._locked is set.
CL_replace(p) ==
    /\ clPc[p] = "swap" /\ SwapComplete(p)
    /\ clPath' = 1
    /\ clFd' = NormFd(CLProcs, NewInode, clFd)
    /\ clFile' = clSwap
    /\ clSwap' = <<>>
    /\ clLocked' = [clLocked EXCEPT ![p] = clNewLocked[p]]
    /\ clPc' = [clPc EXCEPT ![p] = "finish"]
    /\ UNCHANGED <<alive, ctime, our_ctime, max_count, clBlocking, clFlock,
                   clOp, clNew, clNewLocked, cl_enter_count, clDepth, clSignalled>>

\* End of the with block: the flock is released.  enter == self._locked ends
\* the loop and the call returns; otherwise the loop sleeps.
CL_finish(p) ==
    /\ clPc[p] = "finish"
    /\ clFd' = NormFd(CLProcs, clPath, [clFd EXCEPT ![p] = 0])
    /\ clFlock' = [clFlock EXCEPT ![p] = FALSE]
    /\ UNCHANGED clFile
    /\ clNew' = [clNew EXCEPT ![p] = <<>>]
    /\ clNewLocked' = [clNewLocked EXCEPT ![p] = FALSE]
    /\ IF (clOp[p] = "enter") = clLocked[p]
       THEN /\ clPc' = [clPc EXCEPT ![p] = "idle"]
            /\ clOp' = [clOp EXCEPT ![p] = "none"]
            /\ clDepth' = [clDepth EXCEPT ![p] = IF clOp[p] = "enter" THEN @ + 1 ELSE @]
            /\ cl_enter_count' = [cl_enter_count EXCEPT ![p] =
                                     IF clOp[p] = "exit" THEN @ - 1 ELSE @]
            /\ clBlocking' = [clBlocking EXCEPT ![p] = TRUE]
       ELSE /\ clPc' = [clPc EXCEPT ![p] = "sleep"]
            /\ UNCHANGED <<clOp, clDepth, cl_enter_count, clBlocking>>
    /\ UNCHANGED <<alive, ctime, our_ctime, max_count, clLocked, clPath>>
    /\ UNCHANGED swapVars

\* After the sleep the loop tries again.
CL_retry(p) ==
    /\ clPc[p] = "sleep"
    /\ clPc' = [clPc EXCEPT ![p] = "open"]
    /\ UNCHANGED <<alive, ctime, our_ctime, max_count, clBlocking, clLocked, clPath,
                   clFile, clFd, clFlock, clOp, clNew, clNewLocked, cl_enter_count,
                   clDepth>>
    /\ UNCHANGED swapVars

\* blocking = False: after the sleep the remaining time is negative.
CL_sleep_timeout(p) ==
    /\ clPc[p] = "sleep"
    /\ ~clBlocking[p]
    /\ CLRaiseTimeout(p)

CLNext ==
    \E p \in CLProcs :
        \/ CL_spawn(p) \/ CL_kill(p)
        \/ CL_enter_outer(p) \/ CL_enter_nested(p)
        \/ CL_exit_outer(p) \/ CL_exit_nested(p)
        \/ CL_open(p) \/ CL_flock(p) \/ CL_flock_timeout(p)
        \/ CL_validate(p) \/ CL_edit(p) \/ CL_commit(p) \/ CL_finish(p)
        \/ CL_retry(p) \/ CL_sleep_timeout(p)

\* The same, with the steps of the rewrite through the swap file taken one by
\* one and with SIGTERM arriving at any point; without nested enters.
CLSwapNext ==
    \E p \in CLProcs :
        \/ CL_spawn(p) \/ CL_kill(p) \/ CL_term(p)
        \/ CL_enter_outer(p) \/ CL_exit_outer(p)
        \/ CL_open(p) \/ CL_flock(p) \/ CL_flock_timeout(p)
        \/ CL_validate(p) \/ CL_edit(p)
        \/ CL_commit_kept(p) \/ CL_swap_open(p) \/ CL_swap_write(p) \/ CL_replace(p)
        \/ CL_finish(p) \/ CL_retry(p) \/ CL_sleep_timeout(p)

\* ======================================================================
\* Part C: RunLevelLock
\* ======================================================================
\* A RunLevelLock composes the locks of Parts A and B: lock 1 is the base
\* ExecutionLock (always shared), locks 2 .. NumLevels-1 are the real run
\* levels (ExecutionCLocks), then the running lock and the solo lock (both
\* ExecutionLocks).  All of them are created blocking, so an enter of one of
\* them waits until it is granted; here such an enter or exit is one step.
\* A call on the RunLevelLock fixes, from the instance's own state, the
\* sequence of enters and exits it will perform (rlTodo), which are then
\* executed one by one, interleaved with the other processes.
\* Solo mode is entered and left with go_solo(bool) and end_solo(), or with
\* a scoped `with lock.solo(bool)` region.  A caller is in at most one level
\* region and one solo region at a time, nested in either order.

Levels == 0..(NumLevels - 1)
LevelLocks == 1..(NumLevels - 1)
RunningLock == NumLevels
SoloLock == NumLevels + 1
RLLocks == 1..SoloLock

\* self._running_ilevel for running_thres=None
running_ilevel == 2

\* self._solo_ilevel: solo_thres is the lowest real run level.
solo_ilevel == running_ilevel

\* The solo_enabled property: self._solo_ilevel >= 2
solo_enabled == solo_ilevel >= 2

\* run_levels: the lowest real level admits every process, the higher ones one.
max_counts(k) == IF k = running_ilevel THEN RLNumProcs ELSE 1

VARIABLES
    rl_enter_count,   \* RunLevelLock._enter_count (reentrancy harness)
    ilevel_last_set,  \* _ilevel_last_set
    cmOpen,           \* _ilevel_cm_map entry of the level region the caller is in (-1: none)
    cmDead,           \* highest _ilevel_cm_map entry of regions whose enter raised (-1: none)
    regionOpen,       \* the caller is inside a `with lock.level(L)` region
    rlLock,           \* per process and lock: "none", "sh", "ex" or "cnt" (counted)
    rlOp,             \* the call in progress, "none" at rest
    rlTodo,           \* enters / exits the call in progress still has to perform
    rlErr,            \* the call in progress raises ExecLockError
    solo_last_set,    \* _solo_last_set
    soloOpen,         \* the caller is inside a `with lock.solo(b)` region
    soloInner,        \* inside both kinds of region, the solo region is the inner one
    soloCm,           \* _solo_cm_map holds the entry of the solo region the caller is in
    soloDead,         \* _solo_cm_map holds the entry of a solo region whose enter raised
    soloLvl,          \* _ilevel_cm_map entry of the solo region the caller is in (-1: none)
    rlTaint,          \* level locks whose own _enter_count was left at 1 by an enter that raised
    rlEntered         \* level locks the call in progress has entered through its ExitStack

soloVars == <<solo_last_set, soloOpen, soloInner, soloCm, soloDead, soloLvl>>

failVars == <<rlTaint, rlEntered>>

rlVars == <<rl_enter_count, ilevel_last_set, cmOpen, cmDead, regionOpen,
            rlLock, rlOp, rlTodo, rlErr, soloVars, failVars>>

RLInit ==
    /\ rl_enter_count = [p \in RLProcs |-> 0]
    /\ ilevel_last_set = [p \in RLProcs |-> 0]
    /\ cmOpen = [p \in RLProcs |-> -1]
    /\ cmDead = [p \in RLProcs |-> -1]
    /\ regionOpen = [p \in RLProcs |-> FALSE]
    /\ rlLock = [p \in RLProcs |-> [l \in RLLocks |-> "none"]]
    /\ rlOp = [p \in RLProcs |-> "none"]
    /\ rlTodo = [p \in RLProcs |-> <<>>]
    /\ rlErr = [p \in RLProcs |-> FALSE]
    /\ solo_last_set = [p \in RLProcs |-> FALSE]
    /\ soloOpen = [p \in RLProcs |-> FALSE]
    /\ soloInner = [p \in RLProcs |-> FALSE]
    /\ soloCm = [p \in RLProcs |-> FALSE]
    /\ soloDead = [p \in RLProcs |-> FALSE]
    /\ soloLvl = [p \in RLProcs |-> -1]
    /\ rlTaint = [p \in RLProcs |-> {}]
    /\ rlEntered = [p \in RLProcs |-> {}]

rl_locked(p, l) == rlLock[p][l] # "none"

\* RunLevelLock._current_ilevel: the number of locks held from the base upwards.
current_ilevel(p) ==
    Cardinality({k \in LevelLocks : \A j \in 1..k : rl_locked(p, j)})

IntMax(a, b) == IF a >= b THEN a ELSE b

\* new_ilevel = max(_ilevel_last_set, max(_ilevel_cm_map.values(), default=0))
new_ilevel(last, open, dead) == IntMax(last, IntMax(IntMax(open, dead), 0))

Acq(l, m) == [op |-> "acq", lock |-> l, mode |-> m]
Rel(l) == [op |-> "rel", lock |-> l, mode |-> "none"]
Touch(l, m) == [op |-> "touch", lock |-> l, mode |-> m]

\* The mode in which _set_ilevel enters lock k: the base lock is a shared
\* ExecutionLock, a real level an ExecutionCLock.
LevelMode(k) == IF k = 1 THEN "sh" ELSE "cnt"

\* Mutation of RunningOff: the running lock is kept.
RunningOff_keeps(p) == <<>>

\* _set_running(False)
RunningOff(p) == IF rl_locked(p, RunningLock) THEN <<Rel(RunningLock)>> ELSE <<>>

\* _set_running(True, exclusive) on a released running lock
RunningOn(exclusive, exiting) ==
    IF exiting THEN <<>> ELSE <<Acq(RunningLock, IF exclusive THEN "ex" ELSE "sh")>>

\* Mutation of AcquireRange: the levels are taken from the top downwards.
AcquireRange_descending(new) == [i \in 1..new |-> new + 1 - i]

\* for ilvl in range(1, new_ilevel + 1)
AcquireRange(new) == [i \in 1..new |-> i]

\* Mutation of ReleaseRange: the highest level is left out.
ReleaseRange_below_top(new) == [i \in 1..(NumLevels - 2 - new) |-> NumLevels - 1 - i]

\* for ilvl in range(num_levels - 1, new_ilevel, -1)
ReleaseRange(new) == [i \in 1..(NumLevels - 1 - new) |-> NumLevels - i]

ReleaseSteps(p, new) ==
    LET held(k) == rl_locked(p, k)
        all == ReleaseRange(new)
    IN [i \in 1..Len(SelectSeq(all, held)) |-> Rel(SelectSeq(all, held)[i])]

AcquireSteps(p, new) ==
    LET free(k) == ~rl_locked(p, k)
        all == AcquireRange(new)
    IN [i \in 1..Len(SelectSeq(all, free)) |-> Acq(SelectSeq(all, free)[i], LevelMode(SelectSeq(all, free)[i]))]

\* The lock operations of _set_ilevel once new_ilevel is known and the
\* instance is not solo.
SetIlevelSteps(p, new, manage_running, exiting) ==
    (IF manage_running THEN RunningOff(p) ELSE <<>>)
    \o ReleaseSteps(p, new)
    \o AcquireSteps(p, new)
    \o (IF manage_running /\ new >= running_ilevel THEN RunningOn(FALSE, exiting) ELSE <<>>)

\* Mutation of SoloRejects: a level change in solo mode is let through.
SoloRejects_never(cur, new) == FALSE

\* if self._solo_lock.locked: if new_ilevel != cur_ilevel: raise ExecLockError
SoloRejects(cur, new) == new # cur

\* Mutation of EnterSteps: the context entry takes the base lock.
EnterSteps_base == <<Acq(1, "sh")>>

\* RunLevelLock.__enter__: return self
EnterSteps == <<>>

\* A call begins: it is at rest before, and op is in progress after.
RLBegin(p, op) ==
    /\ rlOp[p] = "none"
    /\ rlOp' = [rlOp EXCEPT ![p] = op]

\* The call raises ExecLockError before touching any lock.
RLRaise(p) ==
    /\ rlErr' = [rlErr EXCEPT ![p] = TRUE]
    /\ rlTodo' = [rlTodo EXCEPT ![p] = <<>>]

\* _set_ilevel after the bookkeeping of _ilevel_last_set / _ilevel_cm_map:
\* in solo mode it raises when the level would change and returns at once
\* when it would not; otherwise it performs the lock operations.
RLSetIlevel(p, new, manage_running, exiting) ==
    IF rl_locked(p, SoloLock)
    THEN /\ rlErr' = [rlErr EXCEPT ![p] = SoloRejects(current_ilevel(p), new)]
         /\ rlTodo' = [rlTodo EXCEPT ![p] = <<>>]
    ELSE /\ rlErr' = [rlErr EXCEPT ![p] = FALSE]
         /\ rlTodo' = [rlTodo EXCEPT ![p] = SetIlevelSteps(p, new, manage_running, exiting)]

\* enter_wrapper with _enter_count = 0: RunLevelLock.__enter__
RL_enter_outer(p) ==
    /\ RLBegin(p, "enter")
    /\ rl_enter_count[p] = 0
    /\ rl_enter_count' = [rl_enter_count EXCEPT ![p] = 1]
    /\ rlTodo' = [rlTodo EXCEPT ![p] = EnterSteps]
    /\ UNCHANGED <<ilevel_last_set, cmOpen, cmDead, regionOpen, rlLock,
                   rlErr>>
    /\ UNCHANGED soloVars
    /\ UNCHANGED failVars

\* enter_wrapper, nested
RL_enter_nested(p) ==
    /\ rlOp[p] = "none"
    /\ rl_enter_count[p] >= 1 /\ rl_enter_count[p] < MaxDepth
    /\ rl_enter_count' = [rl_enter_count EXCEPT ![p] = @ + 1]
    /\ UNCHANGED <<ilevel_last_set, cmOpen, cmDead, regionOpen, rlLock,
                   rlOp, rlTodo, rlErr>>
    /\ UNCHANGED soloVars
    /\ UNCHANGED failVars

\* exit_wrapper with _enter_count = 1: RunLevelLock.__exit__ =
\* _set_running(False); _end_solo(manage_running=False);
\* _set_ilevel(0, manage_running=False).  Both calls are made without a
\* region token, so they reset _solo_last_set and clear both request maps,
\* also when the caller is still inside a level or solo region.
RL_exit_outer(p) ==
    /\ RLBegin(p, "exit")
    /\ rl_enter_count[p] = 1
    /\ ilevel_last_set' = [ilevel_last_set EXCEPT ![p] = 0]
    /\ cmOpen' = [cmOpen EXCEPT ![p] = -1]
    /\ cmDead' = [cmDead EXCEPT ![p] = -1]
    /\ solo_last_set' = [solo_last_set EXCEPT ![p] = FALSE]
    /\ soloCm' = [soloCm EXCEPT ![p] = FALSE]
    /\ soloDead' = [soloDead EXCEPT ![p] = FALSE]
    /\ soloLvl' = [soloLvl EXCEPT ![p] = -1]
    /\ UNCHANGED <<soloOpen, soloInner>>
    /\ rlErr' = [rlErr EXCEPT ![p] = FALSE]
    /\ rlTodo' = [rlTodo EXCEPT ![p] =
          RunningOff(p)
          \o (IF rl_locked(p, SoloLock) THEN <<Rel(SoloLock)>> ELSE <<>>)
          \o ReleaseSteps(p, 0)]
    /\ UNCHANGED <<rl_enter_count, regionOpen, rlLock>>
    /\ UNCHANGED failVars

\* exit_wrapper, nested
RL_exit_nested(p) ==
    /\ rlOp[p] = "none"
    /\ rl_enter_count[p] > 1
    /\ rl_enter_count' = [rl_enter_count EXCEPT ![p] = @ - 1]
    /\ UNCHANGED <<ilevel_last_set, cmOpen, cmDead, regionOpen, rlLock,
                   rlOp, rlTodo, rlErr>>
    /\ UNCHANGED soloVars
    /\ UNCHANGED failVars

\* set_level(level) = _set_ilevel(ilevel)
RL_set_level(p, ilevel, exiting) ==
    /\ RLBegin(p, "set_level")
    /\ IF ilevel > 0 /\ rl_enter_count[p] <= 0
       THEN /\ RLRaise(p)
            /\ UNCHANGED <<ilevel_last_set, cmOpen, cmDead, soloLvl>>
       ELSE /\ ilevel_last_set' = [ilevel_last_set EXCEPT ![p] = ilevel]
            /\ cmOpen' = [cmOpen EXCEPT ![p] = -1]
            /\ cmDead' = [cmDead EXCEPT ![p] = -1]
            /\ soloLvl' = [soloLvl EXCEPT ![p] = -1]
            /\ RLSetIlevel(p, new_ilevel(ilevel, -1, -1), TRUE, exiting)
    /\ UNCHANGED <<rl_enter_count, regionOpen, rlLock>>
    /\ UNCHANGED <<solo_last_set, soloOpen, soloInner, soloCm, soloDead>>
    /\ UNCHANGED failVars

\* with lock.level(level): LevelCM.__enter__ = _set_ilevel(ilevel, cm=self).
\* When the call raises in solo mode the region is not entered, but its
\* entry stays in _ilevel_cm_map.
RL_level_enter(p, ilevel, exiting) ==
    /\ RLBegin(p, "level_enter")
    /\ ~regionOpen[p]
    /\ IF ilevel > 0 /\ rl_enter_count[p] <= 0
       THEN /\ RLRaise(p)
            /\ UNCHANGED <<cmOpen, cmDead, regionOpen>>
       ELSE LET new == new_ilevel(ilevel_last_set[p], IntMax(ilevel, soloLvl[p]), cmDead[p])
                raises == rl_locked(p, SoloLock) /\ SoloRejects(current_ilevel(p), new)
            IN /\ regionOpen' = [regionOpen EXCEPT ![p] = ~raises]
               /\ cmOpen' = [cmOpen EXCEPT ![p] = IF raises THEN -1 ELSE ilevel]
               /\ cmDead' = [cmDead EXCEPT ![p] = IF raises THEN IntMax(@, ilevel) ELSE @]
               /\ RLSetIlevel(p, new, TRUE, exiting)
    /\ UNCHANGED <<rl_enter_count, ilevel_last_set, rlLock>>
    /\ UNCHANGED soloVars
    /\ UNCHANGED failVars

\* leaving the region: LevelCM.__exit__ = _set_ilevel(None, cm=self)
RL_level_exit(p, exiting) ==
    /\ RLBegin(p, "level_exit")
    /\ regionOpen[p] /\ ~(soloOpen[p] /\ soloInner[p])
    /\ regionOpen' = [regionOpen EXCEPT ![p] = FALSE]
    /\ cmOpen' = [cmOpen EXCEPT ![p] = -1]
    /\ RLSetIlevel(p, new_ilevel(ilevel_last_set[p], soloLvl[p], cmDead[p]), TRUE, exiting)
    /\ UNCHANGED <<rl_enter_count, ilevel_last_set, cmDead, rlLock>>
    /\ UNCHANGED soloVars
    /\ UNCHANGED failVars

\* go_solo(ensure_level) with a boolean ensure_level = _go_solo(ensure_ilevel):
\* _solo_last_set is set and _solo_cm_map cleared before anything else.
RL_go_solo(p, ensure, exiting) ==
    /\ rlOp[p] = "none"
    /\ LET cur == current_ilevel(p)
           new == IF ensure /\ cur < solo_ilevel THEN solo_ilevel ELSE cur
       IN IF rl_locked(p, SoloLock)
          THEN /\ rlOp' = [rlOp EXCEPT ![p] = "go_solo_again"]
               /\ rlErr' = [rlErr EXCEPT ![p] = FALSE]
               /\ rlTodo' = [rlTodo EXCEPT ![p] = <<>>]
               /\ UNCHANGED <<ilevel_last_set, cmOpen, cmDead, soloLvl>>
          ELSE /\ rlOp' = [rlOp EXCEPT ![p] = "go_solo"]
               /\ IF new < solo_ilevel
                  THEN /\ RLRaise(p)
                       /\ UNCHANGED <<ilevel_last_set, cmOpen, cmDead, soloLvl>>
                  ELSE IF rl_enter_count[p] <= 0
                  THEN \* _set_running(False), then _set_ilevel raises
                       /\ rlErr' = [rlErr EXCEPT ![p] = TRUE]
                       /\ rlTodo' = [rlTodo EXCEPT ![p] = RunningOff(p)]
                       /\ UNCHANGED <<ilevel_last_set, cmOpen, cmDead, soloLvl>>
                  ELSE /\ ilevel_last_set' = [ilevel_last_set EXCEPT ![p] = new]
                       /\ cmOpen' = [cmOpen EXCEPT ![p] = -1]
                       /\ cmDead' = [cmDead EXCEPT ![p] = -1]
                       /\ soloLvl' = [soloLvl EXCEPT ![p] = -1]
                       /\ rlErr' = [rlErr EXCEPT ![p] = FALSE]
                       /\ rlTodo' = [rlTodo EXCEPT ![p] =
                             RunningOff(p)
                             \o ReleaseSteps(p, new) \o AcquireSteps(p, new)
                             \o <<Acq(SoloLock, "ex")>>
                             \o RunningOn(TRUE, exiting)]
    /\ UNCHANGED <<rl_enter_count, regionOpen, rlLock>>
    /\ solo_last_set' = [solo_last_set EXCEPT ![p] = TRUE]
    /\ soloCm' = [soloCm EXCEPT ![p] = FALSE]
    /\ soloDead' = [soloDead EXCEPT ![p] = FALSE]
    /\ UNCHANGED <<soloOpen, soloInner>>
    /\ UNCHANGED failVars

\* end_solo() = _end_solo()
RL_end_solo(p, exiting) ==
    /\ RLBegin(p, "end_solo")
    /\ rlErr' = [rlErr EXCEPT ![p] = FALSE]
    /\ rlTodo' = [rlTodo EXCEPT ![p] =
          IF ~rl_locked(p, SoloLock) THEN <<>>
          ELSE RunningOff(p) \o <<Rel(SoloLock)>>
               \o (IF current_ilevel(p) >= running_ilevel
                   THEN RunningOn(FALSE, exiting) ELSE <<>>)]
    /\ UNCHANGED <<rl_enter_count, ilevel_last_set, cmOpen, cmDead, regionOpen, rlLock>>
    /\ solo_last_set' = [solo_last_set EXCEPT ![p] = FALSE]
    /\ soloCm' = [soloCm EXCEPT ![p] = FALSE]
    /\ soloDead' = [soloDead EXCEPT ![p] = FALSE]
    /\ UNCHANGED <<soloOpen, soloInner, soloLvl>>
    /\ UNCHANGED failVars

\* with lock.solo(ensure): SoloCM.__enter__ = _go_solo(ensure_ilevel, cm=self).
\* The region's entry is put in _solo_cm_map first, and stays there when the
\* call raises; _set_ilevel(new_ilevel, cm=self) records the level of the
\* region in _ilevel_cm_map.
RL_solo_enter(p, ensure, exiting) ==
    /\ RLBegin(p, "solo_enter")
    /\ ~soloOpen[p]
    /\ LET cur == current_ilevel(p)
           new == IF ensure /\ cur < solo_ilevel THEN solo_ilevel ELSE cur
           target == new_ilevel(ilevel_last_set[p], IntMax(cmOpen[p], new), cmDead[p])
           raises == ~rl_locked(p, SoloLock) /\ (new < solo_ilevel \/ rl_enter_count[p] <= 0)
       IN /\ soloOpen' = [soloOpen EXCEPT ![p] = ~raises]
          /\ soloInner' = [soloInner EXCEPT ![p] = ~raises /\ regionOpen[p]]
          /\ soloCm' = [soloCm EXCEPT ![p] = ~raises]
          /\ soloDead' = [soloDead EXCEPT ![p] = @ \/ raises]
          /\ rlErr' = [rlErr EXCEPT ![p] = raises]
          /\ IF rl_locked(p, SoloLock)
             THEN /\ rlTodo' = [rlTodo EXCEPT ![p] = <<>>]
                  /\ UNCHANGED soloLvl
             ELSE IF new < solo_ilevel
             THEN /\ rlTodo' = [rlTodo EXCEPT ![p] = <<>>]
                  /\ UNCHANGED soloLvl
             ELSE IF rl_enter_count[p] <= 0
             THEN \* _set_running(False), then _set_ilevel raises
                  /\ rlTodo' = [rlTodo EXCEPT ![p] = RunningOff(p)]
                  /\ UNCHANGED soloLvl
             ELSE /\ soloLvl' = [soloLvl EXCEPT ![p] = new]
                  /\ rlTodo' = [rlTodo EXCEPT ![p] =
                        RunningOff(p)
                        \o ReleaseSteps(p, target) \o AcquireSteps(p, target)
                        \o <<Acq(SoloLock, "ex")>>
                        \o RunningOn(TRUE, exiting)]
    /\ UNCHANGED <<rl_enter_count, ilevel_last_set, cmOpen, cmDead, regionOpen,
                   rlLock, solo_last_set>>
    /\ UNCHANGED failVars

\* leaving the region: SoloCM.__exit__ = _end_solo(cm=self).  The entry of
\* the region is removed from _solo_cm_map; solo mode stays when it was also
\* requested by go_solo or by an entry left in the map, and then (or when the
\* solo lock is not held) the level entry of the region stays in
\* _ilevel_cm_map.  Otherwise solo mode ends and _set_ilevel(None, cm=self)
\* removes that entry and moves to the remaining target.
RL_solo_exit(p, exiting) ==
    /\ RLBegin(p, "solo_exit")
    /\ soloOpen[p] /\ (regionOpen[p] => soloInner[p])
    /\ soloOpen' = [soloOpen EXCEPT ![p] = FALSE]
    /\ soloInner' = [soloInner EXCEPT ![p] = FALSE]
    /\ soloCm' = [soloCm EXCEPT ![p] = FALSE]
    /\ soloLvl' = [soloLvl EXCEPT ![p] = -1]
    /\ rlErr' = [rlErr EXCEPT ![p] = FALSE]
    /\ IF solo_last_set[p] \/ soloDead[p] \/ ~rl_locked(p, SoloLock)
       THEN /\ cmDead' = [cmDead EXCEPT ![p] = IntMax(@, soloLvl[p])]
            /\ rlTodo' = [rlTodo EXCEPT ![p] = <<>>]
       ELSE LET target == new_ilevel(ilevel_last_set[p], cmOpen[p], cmDead[p])
            IN /\ rlTodo' = [rlTodo EXCEPT ![p] =
                     RunningOff(p) \o <<Rel(SoloLock)>>
                     \o ReleaseSteps(p, target) \o AcquireSteps(p, target)
                     \o (IF target >= running_ilevel
                         THEN RunningOn(FALSE, exiting) ELSE <<>>)]
               /\ UNCHANGED cmDead
    /\ UNCHANGED <<rl_enter_count, ilevel_last_set, cmOpen, regionOpen, rlLock,
                   solo_last_set, soloDead>>
    /\ UNCHANGED failVars

\* Mutation of RLGrantable: every request is granted at once.
RLGrantable_always(p, l, m) == TRUE

\* The blocking enter of lock l in mode m is granted: a flock for the
\* ExecutionLocks, a free slot in the ledger for the ExecutionCLocks.
RLGrantable(p, l, m) ==
    IF m = "cnt"
    THEN Cardinality({q \in RLProcs \ {p} : rl_locked(q, l)}) < max_counts(l)
    ELSE \A q \in RLProcs \ {p} :
            \/ rlLock[q][l] = "none"
            \/ (rlLock[q][l] = "sh" /\ m = "sh")

\* ExecutionLock.test_lockable(shared_lock) on lock l of the instance, which
\* does not hold l: a non-blocking flock in that mode, released at once.
rl_test_lockable(p, l, shared) == RLGrantable(p, l, IF shared THEN "sh" ELSE "ex")

\* Mutation of solo_pending: the running check is left out.
solo_pending_ignores_running(p) ==
    IF rl_locked(p, SoloLock) THEN FALSE
    ELSE ~rl_test_lockable(p, SoloLock, TRUE)

\* The solo_pending property.
solo_pending(p) ==
    IF rl_locked(p, SoloLock) \/ ~rl_locked(p, RunningLock) THEN FALSE
    ELSE ~rl_test_lockable(p, SoloLock, TRUE)

\* Mutation of YieldsRunning: the caller yields only to a pending solo.
YieldsRunning_when_pending(p) == solo_pending(p)

\* if self._solo_lock.locked or not self.running: return
YieldsRunning(p) == ~(rl_locked(p, SoloLock) \/ ~rl_locked(p, RunningLock))

\* Mutation of YieldSteps: the running lock stays held during the touch.
YieldSteps_holds_running(exiting) == <<Touch(SoloLock, "sh")>>

\* self._set_running(False); self._solo_lock.touch_lock(shared_lock=True);
\* self._set_running(True)
YieldSteps(exiting) ==
    <<Rel(RunningLock), Touch(SoloLock, "sh")>> \o RunningOn(FALSE, exiting)

\* yield_to_solo(): nothing when solo or not running; else release running,
\* touch the solo lock shared, take running again.
RL_yield_to_solo(p, exiting) ==
    /\ rlOp[p] = "none"
    /\ rlErr' = [rlErr EXCEPT ![p] = FALSE]
    /\ IF ~YieldsRunning(p)
       THEN /\ rlOp' = [rlOp EXCEPT ![p] = "yield_nothing"]
            /\ rlTodo' = [rlTodo EXCEPT ![p] = <<>>]
       ELSE /\ rlOp' = [rlOp EXCEPT ![p] = "yield_to_solo"]
            /\ rlTodo' = [rlTodo EXCEPT ![p] = YieldSteps(exiting)]
    /\ UNCHANGED <<rl_enter_count, ilevel_last_set, cmOpen, cmDead, regionOpen,
                   rlLock>>
    /\ UNCHANGED soloVars
    /\ UNCHANGED failVars

RLHead(p) == rlTodo[p][1]

\* The operations todo still enter a level lock.
MoreLevels(todo) ==
    \E i \in 1..Len(todo) : todo[i].op = "acq" /\ todo[i].lock \in LevelLocks

\* lock.__enter__ of the next lock of the call in progress.  On a lock whose
\* _enter_count was left at 1 the enter is a nested one: it returns at once
\* and acquires nothing.  After the last level lock of the call is entered,
\* stack.pop_all() empties the ExitStack.
RL_acquire(p) ==
    /\ rlTodo[p] # <<>> /\ RLHead(p).op = "acq"
    /\ IF RLHead(p).lock \in rlTaint[p]
       THEN UNCHANGED rlLock
       ELSE /\ RLGrantable(p, RLHead(p).lock, RLHead(p).mode)
            /\ rlLock' = [rlLock EXCEPT ![p][RLHead(p).lock] = RLHead(p).mode]
    /\ rlEntered' = [rlEntered EXCEPT ![p] =
          IF RLHead(p).lock \notin LevelLocks THEN @
          ELSE IF MoreLevels(Tail(rlTodo[p])) THEN @ \cup {RLHead(p).lock}
          ELSE {}]
    /\ UNCHANGED rlTaint
    /\ rlTodo' = [rlTodo EXCEPT ![p] = Tail(@)]
    /\ UNCHANGED <<rl_enter_count, ilevel_last_set, cmOpen, cmDead, regionOpen,
                   rlOp, rlErr>>
    /\ UNCHANGED soloVars

\* Levels from the top downwards, as an ExitStack unwinds.
Descending == [i \in 1..(NumLevels - 1) |-> NumLevels - i]

\* stack.enter_context(lock) of a level lock raises (its path is unusable, or
\* the caller is interrupted while it waits): enter_wrapper has counted the
\* enter and does not take it back; the ExitStack exits the locks this call
\* entered, the last one first, and the exception leaves the call.  The exit
\* of a lock that was entered as a nested enter releases nothing.
RL_acquire_fail(p) ==
    /\ rlTodo[p] # <<>> /\ RLHead(p).op = "acq"
    /\ RLHead(p).lock \in LevelLocks \ rlTaint[p]
    /\ rlTaint' = [rlTaint EXCEPT ![p] = @ \cup {RLHead(p).lock}]
    /\ rlOp' = [rlOp EXCEPT ![p] = "acquire_failed"]
    /\ rlErr' = [rlErr EXCEPT ![p] = TRUE]
    /\ LET undo(k) == k \in rlEntered[p] /\ rl_locked(p, k)
           ks == SelectSeq(Descending, undo)
       IN rlTodo' = [rlTodo EXCEPT ![p] = [i \in 1..Len(ks) |-> Rel(ks[i])]]
    /\ UNCHANGED <<rl_enter_count, ilevel_last_set, cmOpen, cmDead, regionOpen,
                   rlLock, rlEntered>>
    /\ UNCHANGED soloVars

\* lock.__exit__ of the next lock of the call in progress
RL_release(p) ==
    /\ rlTodo[p] # <<>> /\ RLHead(p).op = "rel"
    /\ rlLock' = [rlLock EXCEPT ![p][RLHead(p).lock] = "none"]
    /\ rlTodo' = [rlTodo EXCEPT ![p] = Tail(@)]
    /\ UNCHANGED <<rl_enter_count, ilevel_last_set, cmOpen, cmDead, regionOpen,
                   rlOp, rlErr>>
    /\ UNCHANGED soloVars
    /\ UNCHANGED failVars

\* touch_lock: the lock is acquired and released at once
RL_touch(p) ==
    /\ rlTodo[p] # <<>> /\ RLHead(p).op = "touch"
    /\ RLGrantable(p, RLHead(p).lock, RLHead(p).mode)
    /\ rlTodo' = [rlTodo EXCEPT ![p] = Tail(@)]
    /\ UNCHANGED <<rl_enter_count, ilevel_last_set, cmOpen, cmDead, regionOpen,
                   rlLock, rlOp, rlErr>>
    /\ UNCHANGED soloVars
    /\ UNCHANGED failVars

\* The call returns (or its exception reaches the caller); exit_wrapper
\* decrements _enter_count after the real __exit__.
RL_return(p) ==
    /\ rlOp[p] # "none" /\ rlTodo[p] = <<>>
    /\ rlOp' = [rlOp EXCEPT ![p] = "none"]
    /\ rlErr' = [rlErr EXCEPT ![p] = FALSE]
    /\ rl_enter_count' = [rl_enter_count EXCEPT ![p] = IF rlOp[p] = "exit" THEN @ - 1 ELSE @]
    /\ UNCHANGED <<ilevel_last_set, cmOpen, cmDead, regionOpen, rlLock,
                   rlTodo>>
    /\ UNCHANGED soloVars
    /\ rlEntered' = [rlEntered EXCEPT ![p] = {}]
    /\ UNCHANGED rlTaint

\* The calls a caller makes on its RunLevelLock outside level regions.
RLCall(p) ==
    \/ RL_enter_outer(p) \/ RL_enter_nested(p)
    \/ RL_exit_outer(p) \/ RL_exit_nested(p)
    \/ \E ilevel \in Levels, exiting \in BOOLEAN : RL_set_level(p, ilevel, exiting)
    \/ \E ensure \in BOOLEAN, exiting \in BOOLEAN : RL_go_solo(p, ensure, exiting)
    \/ \E exiting \in BOOLEAN : RL_end_solo(p, exiting)
    \/ \E exiting \in BOOLEAN : RL_yield_to_solo(p, exiting)

\* Entering and leaving a scoped level region or solo region.
RLRegion(p) ==
    \/ \E ilevel \in Levels, exiting \in BOOLEAN : RL_level_enter(p, ilevel, exiting)
    \/ \E exiting \in BOOLEAN : RL_level_exit(p, exiting)
    \/ \E ensure \in BOOLEAN, exiting \in BOOLEAN : RL_solo_enter(p, ensure, exiting)
    \/ \E exiting \in BOOLEAN : RL_solo_exit(p, exiting)

\* The call in progress advances.
RLRun(p) == RL_acquire(p) \/ RL_release(p) \/ RL_touch(p) \/ RL_return(p)

\* ======================================================================
\* Part D: set_lock_path
\* ======================================================================
\* An instance is constructed on the lock path of Parts A and B; set_lock_path
\* points it to None (0) or to that path (1) again.

VARIABLES
    lock_path,      \* lock_path[p]: the ExecutionLock's _lock_path, 0 = None (_lock is None too)
    cl_lock_path,   \* cl_lock_path[p]: the ExecutionCLock's _lock_path, 0 = None
    el_path_call,   \* last ExecutionLock.set_lock_path call: <<process, outcome>>
    cl_path_call    \* last ExecutionCLock.set_lock_path call: <<process, outcome>>

pathVars == <<lock_path, cl_lock_path, el_path_call, cl_path_call>>

PathInit ==
    /\ lock_path = [p \in ELProcs |-> 1]
    /\ cl_lock_path = [p \in CLProcs |-> 1]
    /\ el_path_call = <<0, "none">>
    /\ cl_path_call = <<0, "none">>

\* Mutation of SetPathRefused: only the locked state is tested.
SetPathRefused_locked_only(is_locked, count) == is_locked

\* if self.locked or self._enter_count > 0: raise ExecLockError
SetPathRefused(is_locked, count) == is_locked \/ count > 0

\* ExecutionLock.set_lock_path(lock_path)
EL_set_lock_path(p, path) ==
    /\ elPc[p] = "idle"
    /\ IF SetPathRefused(locked(p), enter_count[p])
       THEN /\ el_path_call' = <<p, "raised">>
            /\ UNCHANGED lock_path
       ELSE /\ el_path_call' = <<p, "accepted">>
            /\ lock_path' = [lock_path EXCEPT ![p] = path]
    /\ UNCHANGED <<elVars, cl_lock_path, cl_path_call>>

\* ExecutionLock.__enter__ with a lock path of None raises ExecLockError; the
\* harness has counted the enter.
EL_enter_none(p) ==
    /\ elPc[p] = "idle" /\ enter_count[p] = 0 /\ lock_path[p] = 0
    /\ enter_count' = [enter_count EXCEPT ![p] = 1]
    /\ UNCHANGED <<elPath, elFd, elFlock, elData, elPc, elOp, is_shared, blocking, depth>>
    /\ ENSOther(p)

\* ExecutionCLock.set_lock_path(lock_path)
CL_set_lock_path(p, path) ==
    /\ alive[p] /\ clPc[p] = "idle"
    /\ IF SetPathRefused(clLocked[p], cl_enter_count[p])
       THEN /\ cl_path_call' = <<p, "raised">>
            /\ UNCHANGED <<cl_lock_path, clLocked>>
       ELSE /\ cl_path_call' = <<p, "accepted">>
            /\ cl_lock_path' = [cl_lock_path EXCEPT ![p] = path]
            /\ clLocked' = [clLocked EXCEPT ![p] = FALSE]
    /\ UNCHANGED <<alive, ctime, our_ctime, max_count, clBlocking, clPath, clFile, clFd,
                   clFlock, clPc, clOp, clNew, clNewLocked, cl_enter_count, clDepth,
                   lock_path, el_path_call>>
    /\ UNCHANGED swapVars

\* ExecutionCLock.__enter__ with a lock path of None: _update_lock_file raises
\* ExecLockError; the harness has counted the enter.
CL_enter_none(p) ==
    /\ alive[p] /\ clPc[p] = "idle" /\ cl_enter_count[p] = 0 /\ cl_lock_path[p] = 0
    /\ cl_enter_count' = [cl_enter_count EXCEPT ![p] = 1]
    /\ UNCHANGED <<alive, ctime, our_ctime, max_count, clBlocking, clLocked, clPath, clFile,
                   clFd, clFlock, clPc, clOp, clNew, clNewLocked, clDepth>>
    /\ UNCHANGED swapVars

\* The calls on the ExecutionLock of p, set_lock_path included.
ELPathCalls(p) ==
    \/ /\ \/ (lock_path[p] # 0 /\ EL_enter_outer(p)) \/ EL_enter_none(p)
          \/ EL_enter_nested(p) \/ EL_exit_outer(p) \/ EL_exit_nested(p)
          \/ EL_open(p) \/ EL_flock(p) \/ EL_check(p) \/ EL_write(p)
          \/ EL_unlink(p) \/ EL_close(p)
       /\ UNCHANGED <<clVars, pathVars>>
    \/ (\E path \in 0..1 : EL_set_lock_path(p, path)) /\ UNCHANGED clVars

\* The calls on the ExecutionCLock of p, set_lock_path included.
CLPathCalls(p) ==
    \/ /\ \/ CL_spawn(p) \/ CL_kill(p)
          \/ (cl_lock_path[p] # 0 /\ CL_enter_outer(p)) \/ CL_enter_none(p)
          \/ CL_enter_nested(p) \/ CL_exit_outer(p) \/ CL_exit_nested(p)
          \/ CL_open(p) \/ CL_flock(p)
          \/ CL_validate(p) \/ CL_edit(p) \/ CL_commit(p) \/ CL_finish(p)
       /\ UNCHANGED <<elVars, pathVars>>
    \/ (\E path \in 0..1 : CL_set_lock_path(p, path)) /\ UNCHANGED elVars

\* ======================================================================
\* Part E: DeferSignals
\* ======================================================================
\* One process with one DeferSignals object for the default signal list, of
\* which two signals are followed.  A signal whose handler is the deferral
\* handler is recorded; otherwise it goes to the handler installed before the
\* region, which returns, raises (Python's default SIGINT handler raises
\* KeyboardInterrupt) or is the default disposition ending the process.

\* signal.SIGINT, signal.SIGTERM
SIGINT == 2
SIGTERM == 15

\* self.signal_list
signal_list == {SIGINT, SIGTERM}

VARIABLES
    ds_pc,             \* "out", "in", "bare", "exit", "call", "raised" or "dead"
    ds_handler,        \* ds_handler[sig]: "previous" or "defer" (signal.signal)
    previous_handlers, \* previous_handlers[sig]: "returns", "raises" or "terminates"
    deferred,          \* self.deferred
    ds_recorded,       \* signals recorded since the region was entered, in order
    ds_reraised,       \* signals re-raised with os.kill since the region was entered
    ds_direct,         \* signals that reached a previous handler without being recorded
    ds_budget          \* signals that may still arrive from outside

dsVars == <<ds_pc, ds_handler, previous_handlers, deferred, ds_recorded, ds_reraised,
            ds_direct, ds_budget>>

DSInit ==
    /\ ds_pc = "out"
    /\ ds_handler = [sig \in signal_list |-> "previous"]
    /\ previous_handlers = [sig \in signal_list |->
                                IF sig = SIGINT THEN "raises" ELSE "terminates"]
    /\ deferred = <<>>
    /\ ds_recorded = <<>>
    /\ ds_reraised = <<>>
    /\ ds_direct = <<>>
    /\ ds_budget = MaxSignals

DSInstalled == [sig \in signal_list |-> "defer"]
DSRestored == [sig \in signal_list |-> "previous"]

\* Outside the region the program installs a handler of its own for sig, or
\* leaves Python's: the handler __enter__ will find.
DS_set_handler(sig, kind) ==
    /\ ds_pc = "out"
    /\ previous_handlers[sig] # kind
    /\ previous_handlers' = [previous_handlers EXCEPT ![sig] = kind]
    /\ UNCHANGED <<ds_pc, ds_handler, deferred, ds_recorded, ds_reraised, ds_direct,
                   ds_budget>>

\* __enter__: signal.signal(sig_num, self.defer_signal) for every signal of
\* the list.
DS_enter ==
    /\ ds_pc = "out"
    /\ ds_pc' = "in"
    /\ ds_handler' = DSInstalled
    /\ ds_recorded' = <<>> /\ ds_reraised' = <<>> /\ ds_direct' = <<>>
    /\ UNCHANGED <<previous_handlers, deferred, ds_budget>>

\* The position after the previous handler of sig has run at position pc.
\* An exception raised inside __exit__ leaves it; raised under __call__ or in
\* the body of the region, it is caught in the body or leaves the with
\* statement, which then calls __exit__.
DSAfterHandler(pc, sig) ==
    IF previous_handlers[sig] = "returns" THEN {pc}
    ELSE IF previous_handlers[sig] = "terminates" THEN {"dead"}
    ELSE IF pc = "exit" THEN {"raised"}
    ELSE IF pc \in {"call", "bare"} THEN {"bare", "exit"}
    ELSE {pc}

\* A signal of the list arrives from outside.  defer_signal appends it to
\* self.deferred; a previous handler acts at once.
DS_signal(sig) ==
    /\ ds_pc # "dead" /\ ds_budget > 0
    /\ ds_budget' = ds_budget - 1
    /\ IF ds_handler[sig] = "defer"
       THEN /\ deferred' = Append(deferred, sig)
            /\ ds_recorded' = Append(ds_recorded, sig)
            /\ UNCHANGED <<ds_pc, ds_handler, ds_direct>>
       ELSE /\ ds_direct' = Append(ds_direct, sig)
            /\ ds_pc' \in DSAfterHandler(ds_pc, sig)
            /\ UNCHANGED <<ds_handler, deferred, ds_recorded>>
    /\ UNCHANGED <<previous_handlers, ds_reraised>>

\* __exit__, first half: the previous handlers are restored.
DS_exit ==
    /\ ds_pc \in {"in", "bare"}
    /\ ds_pc' = "exit"
    /\ ds_handler' = DSRestored
    /\ UNCHANGED <<previous_handlers, deferred, ds_recorded, ds_reraised, ds_direct,
                   ds_budget>>

\* __call__: if self.deferred: self.__exit__(); self.__enter__()
DS_call ==
    /\ ds_pc = "in" /\ deferred # <<>>
    /\ ds_pc' = "call"
    /\ ds_handler' = DSRestored
    /\ UNCHANGED <<previous_handlers, deferred, ds_recorded, ds_reraised, ds_direct,
                   ds_budget>>

\* while self.deferred: sig_num = self.deferred.pop(0); os.kill(os.getpid(),
\* sig_num).  The signal reaches the restored handler before the loop goes on.
DS_reraise ==
    /\ ds_pc \in {"exit", "call"} /\ deferred # <<>>
    /\ deferred' = Tail(deferred)
    /\ ds_reraised' = Append(ds_reraised, Head(deferred))
    /\ ds_pc' \in DSAfterHandler(ds_pc, Head(deferred))
    /\ UNCHANGED <<ds_handler, previous_handlers, ds_recorded, ds_direct, ds_budget>>

\* The loop of __exit__ ends: the region is left, or __call__ goes on with
\* __enter__.
DS_drained ==
    /\ ds_pc \in {"exit", "call"} /\ deferred = <<>>
    /\ ds_pc' = IF ds_pc = "exit" THEN "out" ELSE "in"
    /\ ds_handler' = IF ds_pc = "exit" THEN DSRestored ELSE DSInstalled
    /\ UNCHANGED <<previous_handlers, deferred, ds_recorded, ds_reraised, ds_direct,
                   ds_budget>>

DSNext ==
    \/ DS_enter \/ DS_exit \/ DS_call \/ DS_reraise \/ DS_drained
    \/ \E sig \in signal_list : DS_signal(sig)
    \/ \E sig \in signal_list, kind \in {"returns", "raises", "terminates"} :
          DS_set_handler(sig, kind)

\* ======================================================================
\* Part F: the polling budget of a non-blocking enter
\* ======================================================================
\* Time is counted in units of check_interval.  el_left[p] is what
\* start_time + self.timeout - time.perf_counter() evaluates to for the
\* ExecutionLock enter of p in progress; all negative values behave alike and
\* are kept as -1.  portalocker is handed this value as its timeout at the
\* start of every acquisition, so its own deadline is the same instant: it
\* makes one attempt whatever the timeout, and polls again after a sleep of
\* check_interval while time is left.

VARIABLES
    el_left         \* el_left[p]: time left until start_time + timeout

timeVars == <<el_left>>

TimeInit == el_left = [p \in ELProcs |-> 0]

\* time.sleep(check_interval) by p.
Sleep(left, p) == [left EXCEPT ![p] = IF @ > 0 THEN @ - 1 ELSE -1]

\* __enter__ of a lock with blocking False: start_time is taken and
\* _configure_lock sets self._lock.timeout = self.timeout.
ELT_enter_outer(p) ==
    /\ EL_enter_outer(p) /\ ~blocking'[p]
    /\ \E t \in 1..MaxTimeout : el_left' = [el_left EXCEPT ![p] = t]

\* portalocker: the flock was refused and time is left: sleep and poll again.
ELT_flock_poll(p) ==
    /\ elPc[p] = "flock" /\ ~FlockGrantable(p)
    /\ el_left[p] > 0
    /\ el_left' = Sleep(el_left, p)
    /\ UNCHANGED elVars

\* portalocker: the flock was refused and no time is left: LockException.
ELT_flock_fail(p) ==
    /\ EL_flock_fail(p) /\ el_left[p] <= 0
    /\ UNCHANGED el_left

\* __enter__ after a stolen lock: stack.close(), time.sleep(check_interval),
\* self._lock.timeout = start_time + self.timeout - time.perf_counter(), and
\* round the loop again.
ELT_retry(p) ==
    /\ EL_retry(p)
    /\ el_left' = Sleep(el_left, p)

\* The steps of an ExecutionLock call of p in progress.
ELTRun(p) ==
    \/ ELT_flock_poll(p) \/ ELT_flock_fail(p) \/ ELT_retry(p)
    \/ (EL_open(p) \/ EL_flock(p) \/ EL_check(p) \/ EL_write(p)
           \/ EL_unlink(p) \/ EL_close(p)) /\ UNCHANGED el_left

\* The calls p makes: non-blocking enters and the exits that match them.
ELTCall(p) == ELT_enter_outer(p) \/ (EL_exit_outer(p) /\ UNCHANGED el_left)

\* ======================================================================
\* Part G: update_max_counts
\* ======================================================================
\* The caps of the counted locks of one RunLevelLock instance, changed with
\* update_max_counts while the instance moves through its levels.

RealLevels == 2..(NumLevels - 1)

\* The caps a caller asks for; 0 is not a cap (the max_count setter refuses it).
CapValues == 0..(MaxCap + 1)

VARIABLES
    rl_max_count,   \* rl_max_count[k]: self._lock[k].max_count of the instance
    cap_call        \* the last update_max_counts call: its first item, options, what it found and whether it raised

capVars == <<rl_max_count, cap_call>>

NoCapCall == [lvl |-> 0, value |-> 0, error_if_locked |-> TRUE, allow_raise |-> TRUE,
              held |-> FALSE, old |-> 0, raised |-> FALSE]

CapInit ==
    /\ rl_max_count = [k \in RealLevels |-> max_counts(k)]
    /\ cap_call = NoCapCall

\* Mutation of CapChangeRefused: allow_raise is not consulted.
CapChangeRefused_any_change(is_locked, cur, value, error_if_locked, allow_raise) ==
    error_if_locked /\ is_locked /\ value # cur

\* if error_if_locked and lock.locked and max_count != lock.max_count and
\*    (max_count < lock.max_count or not allow_raise): raise ExecLockError
CapChangeRefused(is_locked, cur, value, error_if_locked, allow_raise) ==
    error_if_locked /\ is_locked /\ value # cur /\ (value < cur \/ ~allow_raise)

\* The max_count setter: if value < 1: raise ExecLockError
CapInvalid(value) == value < 1

\* The loop of update_max_counts over run_levels.items(), in order: the caps
\* when it ends and whether it ended by raising.
RECURSIVE UpdateMaxCounts(_, _, _, _, _)
UpdateMaxCounts(caps, held, items, error_if_locked, allow_raise) ==
    IF items = <<>>
    THEN [caps |-> caps, raised |-> FALSE]
    ELSE LET lvl == Head(items)[1]
             value == Head(items)[2]
         IN IF \/ CapChangeRefused(held[lvl], caps[lvl], value, error_if_locked, allow_raise)
               \/ CapInvalid(value)
            THEN [caps |-> caps, raised |-> TRUE]
            ELSE UpdateMaxCounts([caps EXCEPT ![lvl] = value], held, Tail(items),
                                 error_if_locked, allow_raise)

\* The run_levels arguments: one or two levels, each with the cap asked for.
CapItems ==
    {<<<<k, v>>>> : k \in RealLevels, v \in CapValues}
    \cup {it \in {<<<<j, v>>, <<k, w>>>> : j \in RealLevels, k \in RealLevels,
                                           v \in CapValues, w \in CapValues} :
               it[1][1] # it[2][1]}

\* update_max_counts(run_levels, error_if_locked, allow_raise) by p, at rest.
RL_update_max_counts(p, items, error_if_locked, allow_raise) ==
    /\ rlOp[p] = "none"
    /\ LET held == [k \in RealLevels |-> rl_locked(p, k)]
           res == UpdateMaxCounts(rl_max_count, held, items, error_if_locked, allow_raise)
       IN /\ rl_max_count' = res.caps
          /\ cap_call' = [lvl |-> items[1][1], value |-> items[1][2],
                          error_if_locked |-> error_if_locked, allow_raise |-> allow_raise,
                          held |-> held[items[1][1]], old |-> rl_max_count[items[1][1]],
                          raised |-> res.raised]
    /\ UNCHANGED rlVars

\* The level calls of the instance among which the caps are updated.
RLCapsCall(p) ==
    \/ RL_enter_outer(p) \/ RL_exit_outer(p)
    \/ \E ilevel \in Levels : RL_set_level(p, ilevel, FALSE)

\* ======================================================================
\* Part H: DynamicContext (src/contextman.py)
\* ======================================================================
\* Exit nodes are numbered in the order of their registration.  A node is
\* registered by enter_context, register_exit_func or register_callback, with
\* parent None (0 here) or an exit node that is active at that moment.

NodeIds == 1..MaxNodes

VARIABLES
    exit_nodes,     \* self._exit_nodes: the active nodes, [id, parent, raises], in registration order
    dc_entered,     \* the with-block of the dynamic context is entered
    dc_registered,  \* number of nodes registered so far
    dc_parent,      \* dc_parent[n]: the parent node n was registered with, 0 = None
    dc_called,      \* the nodes whose exit callback ran, in the order of the calls
    dc_raised       \* the last close_node / __exit__ ended by re-raising a callback's exception

dcVars == <<exit_nodes, dc_entered, dc_registered, dc_parent, dc_called, dc_raised>>

DCInit ==
    /\ exit_nodes = <<>>
    /\ dc_entered = FALSE
    /\ dc_registered = 0
    /\ dc_parent = [n \in NodeIds |-> 0]
    /\ dc_called = <<>>
    /\ dc_raised = FALSE

\* The ids of the active nodes.
DCActive == {exit_nodes[i].id : i \in 1..Len(exit_nodes)}

\* DynamicContext.__enter__: return self
DC_enter ==
    /\ ~dc_entered
    /\ dc_entered' = TRUE
    /\ UNCHANGED <<exit_nodes, dc_registered, dc_parent, dc_called, dc_raised>>

\* enter_context / register_exit_func / register_callback with the given
\* parent; raises tells whether the node's exit callback raises when called.
DC_register(parent, raises) ==
    /\ dc_entered /\ dc_registered < MaxNodes
    /\ parent = 0 \/ parent \in DCActive
    /\ dc_registered' = dc_registered + 1
    /\ exit_nodes' = Append(exit_nodes, [id |-> dc_registered + 1, parent |-> parent,
                                          raises |-> raises])
    /\ dc_parent' = [dc_parent EXCEPT ![dc_registered + 1] = parent]
    /\ UNCHANGED <<dc_entered, dc_called, dc_raised>>

\* Mutation of IsChildOfCollected: only the children of the requested nodes
\* themselves are collected.
IsChildOfCollected_direct(enode, requested, collected) == enode.parent \in requested

\* any(en[1] is parent_enode for en in index_enode_set)
IsChildOfCollected(enode, requested, collected) == enode.parent \in collected

\* _collect_enodes(node_set, children=True): one pass over the deque in
\* registration order; the indices collected, in that order.
RECURSIVE CollectFrom(_, _, _, _)
CollectFrom(i, requested, collected, list) ==
    IF i > Len(exit_nodes) THEN list
    ELSE IF exit_nodes[i].id \in requested
         THEN CollectFrom(i + 1, requested, collected, Append(list, i))
         ELSE IF IsChildOfCollected(exit_nodes[i], requested, collected)
              THEN CollectFrom(i + 1, requested, collected \cup {exit_nodes[i].id},
                               Append(list, i))
              ELSE CollectFrom(i + 1, requested, collected, list)

CollectEnodes(node_set) == CollectFrom(1, node_set, node_set, <<>>)

\* The indices of all active nodes: list(enumerate(self._exit_nodes)).
AllEnodes == [i \in 1..Len(exit_nodes) |-> i]

\* _close_enodes(index_enode_list, ...): pops the list from its end, deletes
\* each node from the deque and calls its callback; an exception of a
\* callback is kept and re-raised after the last callback.
DCCloseEnodes(list) ==
    LET n == Len(list)
        order == [k \in 1..n |-> exit_nodes[list[n + 1 - k]]]
        gone == {list[k] : k \in 1..n}
        kept(i) == i \notin gone
        keptIdx == SelectSeq(AllEnodes, kept)
    IN /\ exit_nodes' = [k \in 1..Len(keptIdx) |-> exit_nodes[keptIdx[k]]]
       /\ dc_called' = dc_called \o [k \in 1..n |-> order[k].id]
       /\ dc_raised' = \E k \in 1..n : order[k].raises

\* close_node(node) (also leave_context, close_exit_func, close_callback and
\* del ctx[key]) on an active node.
DC_close_node(node) ==
    /\ node \in DCActive
    /\ DCCloseEnodes(CollectEnodes({node}))
    /\ UNCHANGED <<dc_entered, dc_registered, dc_parent>>

\* DynamicContext.__exit__: the with-block is left.
DC_exit ==
    /\ dc_entered
    /\ dc_entered' = FALSE
    /\ DCCloseEnodes(AllEnodes)
    /\ UNCHANGED <<dc_registered, dc_parent>>

DCNext ==
    \/ DC_enter
    \/ \E parent \in 0..MaxNodes, raises \in BOOLEAN : DC_register(parent, raises)
    \/ \E node \in NodeIds : DC_close_node(node)
    \/ DC_exit

\* ======================================================================
\* Part I: the state of an instance when a level region was entered
\* ======================================================================
\* What `with lock.level(L):` found when LevelCM.__enter__ was called and the
\* region was entered: the level locks held and whether the instance was solo.

VARIABLES
    region_from    \* per process: [held, solo] at the entry of its level region

restoreVars == <<region_from>>

RestoreInit == region_from = [p \in RLProcs |-> [held |-> {}, solo |-> FALSE]]

HeldLevels(p) == {k \in LevelLocks : rl_locked(p, k)}

\* The step notes the state of p when it is the entry of a level region.
RegionNote(p) ==
    region_from' = [region_from EXCEPT ![p] =
        IF rlOp[p] = "none" /\ rlOp'[p] = "level_enter" /\ regionOpen'[p]
        THEN [held |-> HeldLevels(p), solo |-> rl_locked(p, SoloLock)]
        ELSE @]

\* The calls made inside a level region: go_solo, end_solo, solo regions and
\* the exit of the region (nested enters and exits of the instance only count).
RegionBodyOps == {"none", "go_solo", "go_solo_again", "end_solo", "solo_enter",
                  "solo_exit", "level_exit"}
RegionBody(p) ==
    regionOpen[p] /\ rlOp[p] = "none" => rlOp'[p] \in RegionBodyOps

vars == <<elVars, clVars, rlVars, pathVars, dsVars, timeVars, capVars, dcVars, restoreVars>>

\* ---------------------------------------------------------- specifications
ELEnterExit ==
    \E p \in ELProcs :
        \/ EL_enter_outer(p) \/ EL_enter_nested(p)
        \/ EL_exit_outer(p) \/ EL_exit_nested(p)
        \/ EL_open(p) \/ EL_flock(p) \/ EL_flock_fail(p)
        \/ EL_check(p) \/ EL_retry(p) \/ EL_write(p)
        \/ EL_unlink(p) \/ EL_close(p)

ELProbes == \E p \in ELProcs : EL_test_lockable(p) \/ EL_touch_lock(p)

\* Cooperating processes that only enter and exit the lock.
Init == ELInit /\ CLInit /\ RLInit /\ PathInit /\ DSInit /\ TimeInit /\ CapInit /\ DCInit /\ RestoreInit
Next == ELEnterExit /\ UNCHANGED <<clVars, rlVars, pathVars, dsVars, timeVars, capVars, dcVars, restoreVars>>
Spec == Init /\ [][Next]_vars

\* The same processes, also reconciling the lock state with ensure_locked.
ELEnsure ==
    \E p \in ELProcs :
        \/ \E lock \in BOOLEAN, during_exit \in BOOLEAN, exiting \in BOOLEAN :
              EL_ensure_locked(p, lock, during_exit, exiting)
        \/ EL_ensure_enter_outer(p) \/ EL_ensure_enter_nested(p)
        \/ EL_ensure_exit_outer(p) \/ EL_ensure_exit_nested(p)
        \/ EL_ensure_nothing(p)
NextEnsure == (ELEnterExit \/ ELEnsure) /\ UNCHANGED <<clVars, rlVars, pathVars, dsVars, timeVars, capVars, dcVars, restoreVars>>
SpecEnsure == Init /\ [][NextEnsure]_vars

\* Processes entering with blocking False and exiting, with the time left to
\* each enter; a call in progress is not abandoned.
NextBudget ==
    (\E p \in ELProcs : ELTCall(p) \/ ELTRun(p)) /\ UNCHANGED <<clVars, rlVars, pathVars, dsVars, capVars, dcVars, restoreVars>>
FairBudget ==
    \A p \in ELProcs : WF_vars(ELTRun(p) /\ UNCHANGED <<clVars, rlVars, pathVars, dsVars, capVars, dcVars, restoreVars>>)
SpecBudget == Init /\ [][NextBudget]_vars /\ FairBudget

\* One DynamicContext whose nodes are registered, closed and left.
NextDC == DCNext /\ UNCHANGED <<elVars, clVars, rlVars, pathVars, dsVars, timeVars, capVars, restoreVars>>
SpecDC == Init /\ [][NextDC]_vars

\* The same processes, also probing the path with test_lockable and touch_lock.
NextProbe == (ELEnterExit \/ ELProbes) /\ UNCHANGED <<clVars, rlVars, pathVars, dsVars, timeVars, capVars, dcVars, restoreVars>>
SpecProbe == Init /\ [][NextProbe]_vars

\* Processes entering and exiting one ExecutionCLock, dying and being replaced.
NextCL == CLNext /\ UNCHANGED <<elVars, rlVars, pathVars, dsVars, timeVars, capVars, dcVars, restoreVars>>
SpecCL == Init /\ [][NextCL]_vars

\* Processes sharing one ExecutionCLock path, rewrite steps and signals shown.
NextCLSwap == CLSwapNext /\ UNCHANGED <<elVars, rlVars, pathVars, dsVars, timeVars, capVars, dcVars, restoreVars>>
SpecCLSwap == Init /\ [][NextCLSwap]_vars

\* Processes driving one RunLevelLock path through levels, solo mode and yields.
NextRL == (\E p \in RLProcs : RLCall(p) \/ RLRun(p)) /\ UNCHANGED <<elVars, clVars, pathVars, dsVars, timeVars, capVars, dcVars, restoreVars>>
SpecRL == Init /\ [][NextRL]_vars

\* One RunLevelLock instance alone on its path, level regions included.
RLFirst == CHOOSE p \in RLProcs : \A q \in RLProcs : p <= q
NextRLRegion ==
    (RLCall(RLFirst) \/ RLRegion(RLFirst) \/ RLRun(RLFirst)) /\ UNCHANGED <<elVars, clVars, pathVars, dsVars, timeVars, capVars, dcVars, restoreVars>>
SpecRLRegion == Init /\ [][NextRLRegion]_vars

\* One RunLevelLock instance alone on its path whose level regions hold only
\* go_solo, end_solo and solo regions.
NextRLRestore ==
    /\ RLCall(RLFirst) \/ RLRegion(RLFirst) \/ RLRun(RLFirst)
    /\ RegionBody(RLFirst)
    /\ RegionNote(RLFirst)
    /\ UNCHANGED <<elVars, clVars, pathVars, dsVars, timeVars, capVars, dcVars>>
SpecRLRestore == Init /\ [][NextRLRestore]_vars

\* One RunLevelLock instance alone on its path, with level and solo regions,
\* where the enter of a level lock may raise.
NextRLFail ==
    (RLCall(RLFirst) \/ RLRegion(RLFirst) \/ RLRun(RLFirst) \/ RL_acquire_fail(RLFirst))
        /\ UNCHANGED <<elVars, clVars, pathVars, dsVars, timeVars, capVars, dcVars, restoreVars>>
SpecRLFail == Init /\ [][NextRLFail]_vars

\* One RunLevelLock instance alone on its path, setting levels and updating
\* the caps of its counted locks.
NextCaps ==
    \/ (RLCapsCall(RLFirst) \/ RL_acquire(RLFirst) \/ RL_release(RLFirst) \/ RL_return(RLFirst))
          /\ UNCHANGED <<elVars, clVars, pathVars, dsVars, timeVars, capVars, dcVars, restoreVars>>
    \/ (\E items \in CapItems, error_if_locked \in BOOLEAN, allow_raise \in BOOLEAN :
            RL_update_max_counts(RLFirst, items, error_if_locked, allow_raise))
          /\ UNCHANGED <<elVars, clVars, pathVars, dsVars, timeVars, dcVars, restoreVars>>
SpecCaps == Init /\ [][NextCaps]_vars

\* Cooperating processes on one RunLevelLock path that set levels, go solo,
\* end solo, yield and exit in any order; the first of them also uses level
\* regions.
RLCoopCall(p) ==
    \/ RL_enter_outer(p) \/ RL_exit_outer(p)
    \/ \E ilevel \in Levels, exiting \in BOOLEAN : RL_set_level(p, ilevel, exiting)
    \/ \E ensure \in BOOLEAN, exiting \in BOOLEAN : RL_go_solo(p, ensure, exiting)
    \/ \E exiting \in BOOLEAN : RL_end_solo(p, exiting)
    \/ \E exiting \in BOOLEAN : RL_yield_to_solo(p, exiting)
RLCoopRegion(p) ==
    \/ \E ilevel \in Levels, exiting \in BOOLEAN : RL_level_enter(p, ilevel, exiting)
    \/ \E exiting \in BOOLEAN : RL_level_exit(p, exiting)
NextRLCoop ==
    ((\E p \in RLProcs : RLCoopCall(p) \/ RLRun(p)) \/ RLCoopRegion(RLFirst))
        /\ UNCHANGED <<elVars, clVars, pathVars, dsVars, timeVars, capVars, dcVars, restoreVars>>
SpecRLCoop == Init /\ [][NextRLCoop]_vars

\* Processes at the lowest real level that go solo, end solo and yield, with
\* the scheduling the cooperative protocol relies on: a call in progress is
\* not abandoned, a blocking enter that can be granted again and again is
\* granted, and every process keeps calling yield_to_solo and end_solo.
RLSoloCall(p) ==
    \/ RL_enter_outer(p)
    \/ RL_exit_outer(p)
    \/ \E exiting \in BOOLEAN : RL_set_level(p, running_ilevel, exiting)
    \/ \E ensure \in BOOLEAN, exiting \in BOOLEAN : RL_go_solo(p, ensure, exiting)
    \/ \E exiting \in BOOLEAN : RL_end_solo(p, exiting)
    \/ \E exiting \in BOOLEAN : RL_yield_to_solo(p, exiting)
NextRLSolo ==
    (\E p \in RLProcs : RLSoloCall(p) \/ RLRun(p)) /\ UNCHANGED <<elVars, clVars, pathVars, dsVars, timeVars, capVars, dcVars, restoreVars>>
FairRLSolo ==
    \A p \in RLProcs :
        /\ WF_vars(RLRun(p) /\ UNCHANGED <<elVars, clVars, pathVars, dsVars, timeVars, capVars, dcVars, restoreVars>>)
        /\ SF_vars((RL_acquire(p) \/ RL_touch(p)) /\ UNCHANGED <<elVars, clVars, pathVars, dsVars, timeVars, capVars, dcVars, restoreVars>>)
        /\ SF_vars((\E exiting \in BOOLEAN : RL_yield_to_solo(p, exiting))
                      /\ UNCHANGED <<elVars, clVars, pathVars, dsVars, timeVars, capVars, dcVars, restoreVars>>)
        /\ SF_vars((\E exiting \in BOOLEAN : RL_end_solo(p, exiting))
                      /\ UNCHANGED <<elVars, clVars, pathVars, dsVars, timeVars, capVars, dcVars, restoreVars>>)
SpecRLSolo == Init /\ [][NextRLSolo]_vars /\ FairRLSolo

\* One process using an ExecutionLock and one using an ExecutionCLock, each
\* alone on its path, that also call set_lock_path on their instances.
ELFirst == CHOOSE p \in ELProcs : \A q \in ELProcs : p <= q
CLFirst == CHOOSE p \in CLProcs : \A q \in CLProcs : p <= q
NextPath == (ELPathCalls(ELFirst) \/ CLPathCalls(CLFirst)) /\ UNCHANGED <<rlVars, dsVars, timeVars, capVars, dcVars, restoreVars>>
SpecPath == Init /\ [][NextPath]_vars

\* One process using a DeferSignals object, with signals arriving.
NextDefer == DSNext /\ UNCHANGED <<elVars, clVars, rlVars, pathVars, timeVars, capVars, dcVars, restoreVars>>
SpecDefer == Init /\ [][NextDefer]_vars

\* ------------------------------------------------------------------ claims

\* p is between a returned real __enter__ and the start of its real __exit__.
ELHolds(p) == elPc[p] = "idle" /\ locked(p)
ELHoldsEx(p) == ELHolds(p) /\ ~is_shared[p]
ELHoldsSh(p) == ELHolds(p) /\ is_shared[p]

\* C1: at most one process holds the ExecutionLock exclusive at any time, and
\* no process holds it exclusive while another holds it shared (several
\* shared holders at once are allowed).
C1_MutualExclusion ==
    \A p \in ELProcs : \A q \in ELProcs \ {p} : ELHoldsEx(p) => ~ELHolds(q)

\* C1 witness: every process holds the lock shared at the same time.
C1_AllShared == \A p \in ELProcs : ELHoldsSh(p)

\* C4: every holder's descriptor refers to the inode found at the lock path,
\* whatever enter, exit, test_lockable and touch_lock steps others take.
C4_HeldInodeAtPath == \A p \in ELProcs : ELHolds(p) => elFd[p] = elPath

\* The ledger is read and rewritten only under a flock on the inode at the path.
CLValidWhileEditing ==
    \A p \in CLProcs : clPc[p] \in {"edit", "commit"} => (clFd[p] = 1 /\ clPath = 1 /\ clFlock[p])

\* A line is stale: its pid is gone, or belongs to a process created at
\* another time than the line records (0 records no time).
CLStale(line) == ~alive[line.pid] \/ (line.ctime # 0 /\ line.ctime # ctime[line.pid])

LiveLines == {i \in 1..Len(Ledger) : ~CLStale(Ledger[i])}

\* C2: the ledger never holds more lines of live processes than the max_count
\* recorded in any of those lines.
C2_LiveLinesWithinCap ==
    \A i \in LiveLines : Cardinality(LiveLines) <= Ledger[i].max

\* C2 witness: the ledger is full, two live holders under a cap of two.
C2_LedgerFull ==
    /\ Cardinality(LiveLines) = 2
    /\ \E i \in LiveLines : Ledger[i].max = 2

\* The instance is at rest: none of its enter/exit calls is in progress.
CLAtRest(p) == alive[p] /\ clPc[p] = "idle"

HasOurLine(p) == \E i \in 1..Len(Ledger) : Ledger[i] = our_line(p)

\* C5: at rest, the ledger holds the instance's own line iff its _locked flag is set.
C5_OwnLineIffLocked ==
    \A p \in CLProcs : CLAtRest(p) => (HasOurLine(p) <=> clLocked[p])

\* C6: the enters that returned on an instance and were not yet exited rest on
\* exactly one real acquire: at rest the lock is held iff such an enter exists
\* (N nested enters make one real acquire, the last exit the one real release).
C6_OneRealAcquire ==
    \A p \in ELProcs : elPc[p] = "idle" => ((depth[p] > 0) <=> locked(p))

NoStaleLine(contents) == \A i \in 1..Len(contents) : ~CLStale(contents[i])

\* p's _edit_lock_contents / p's rewrite happens in this step.
CLEditStep(p) == clPc[p] = "edit" /\ clPc'[p] = "commit"
CLCommitStep(p) == clPc[p] = "commit" /\ clPc'[p] = "finish"

RLReturns(p, op) == rlOp[p] = op /\ rlOp'[p] = "none"

\* The level locks p holds.
RLHeldLevels(p) == {k \in LevelLocks : rl_locked(p, k)}

\* The effective target: max of the last explicit level and the region requests.
EffectiveTarget(p) == new_ilevel(ilevel_last_set[p], IntMax(cmOpen[p], soloLvl[p]), cmDead[p])

\* p is in solo mode: it holds the solo lock, its go_solo has returned and
\* neither its end_solo nor its outer exit has begun.
RLInSolo(p) == rl_locked(p, SoloLock) /\ rlOp[p] \notin {"go_solo", "end_solo", "exit"}

\* C3: at most one process is in solo mode, and while a process is in solo
\* mode no other process holds the running lock.
C3_SoloExcludesRunning ==
    \A p \in RLProcs : RLInSolo(p) =>
        \A q \in RLProcs \ {p} : ~RLInSolo(q) /\ ~rl_locked(q, RunningLock)

C9_SoloFreezesLevel ==
    [][\A p \in RLProcs :
          /\ (rl_locked(p, SoloLock) /\ rlLock'[p][SoloLock] # "none") =>
                \A k \in LevelLocks : rlLock'[p][k] = rlLock[p][k]
          /\ (/\ rl_locked(p, SoloLock) /\ rlOp[p] = "none"
              /\ rlOp'[p] \in {"set_level", "level_enter", "level_exit"}
              /\ EffectiveTarget(p)' # current_ilevel(p)) =>
                (rlErr'[p] /\ rlTodo'[p] = <<>>)]_vars

\* C9 witness: a level change has just been refused in solo mode.
C9_RefusedInSolo ==
    \E p \in RLProcs :
        /\ rl_locked(p, SoloLock) /\ rlErr[p]
        /\ rlOp[p] \in {"set_level", "level_enter", "level_exit"}

\* ---------------------------------------------------- ExecutionCLock, cont.

\* C11: a rewrite of the ledger by one process never removes the line of
\* another process that is alive and locally locked, whatever creation time
\* the line records.
C11_LiveLineKept ==
    [][\A q \in CLProcs : CLCommitStep(q) =>
          \A p \in CLProcs \ {q} :
              (alive[p] /\ clLocked[p] /\ HasOurLine(p)) =>
                  \E i \in 1..Len(clFile') : clFile'[i] = our_line(p)]_vars

\* An enter attempt of q that found no free slot writes the ledger back.
CLFailedCommitStep(q) == CLCommitStep(q) /\ clOp[q] = "enter" /\ ~clNewLocked[q]

\* The enter call of q ends with ExecLockError (timed out) after the sleep.
CLTimeoutStep(q) == clPc[q] = "sleep" /\ clOp[q] = "enter" /\ clPc'[q] = "idle"

\* C12: an enter that finds the ledger full fails with the timeout error once
\* its deadline has passed; the ledger then holds no line of the failed
\* entrant, its _locked flag is False, and the attempt left the lines of the
\* live holders as they were.
C12_FailedEnterLeavesLedger ==
    [][\A q \in CLProcs :
          /\ CLTimeoutStep(q) => (~clLocked'[q] /\ ~HasOurLine(q)')
          /\ CLFailedCommitStep(q) =>
                \A p \in CLProcs \ {q} :
                    (alive[p] /\ clLocked[p] /\ HasOurLine(p)) => HasOurLine(p)']_vars

\* An earlier enter of p ended with the timeout error and was never matched by
\* an exit: the harness counts more enters than have returned.
CLFailedBefore(p) == CLAtRest(p) /\ cl_enter_count[p] > clDepth[p]

\* An enter call of p returns normally in this step.
CLEnterReturns(p) == clDepth'[p] = clDepth[p] + 1

\* C13: after an enter failed with the timeout error because the cap was full
\* and the holders have exited (the ledger is empty again), a further enter on
\* the same lock object that returns has added the instance's line and set its
\* _locked flag.
C13_EnterAfterFailure ==
    [][\A p \in CLProcs :
          (CLFailedBefore(p) /\ clFile = <<>> /\ alive'[p] /\ CLEnterReturns(p)) =>
              (clLocked'[p] /\ HasOurLine(p)')]_vars

\* ------------------------------------------------------- RunLevelLock, cont.
RLAtRest(p) == rlOp[p] = "none"

RLYieldReturns(p) == rlOp[p] = "yield_to_solo" /\ rlOp'[p] = "none"

\* C15: when yield_to_solo returns to a caller that was running, the caller
\* holds the running lock shared again and no other process holds the solo lock.
C15_YieldReturnsClear ==
    [][\A p \in RLProcs : RLYieldReturns(p) =>
          /\ rlLock'[p][RunningLock] = "sh"
          /\ \A q \in RLProcs \ {p} : ~rl_locked(q, SoloLock)']_vars

\* The yield_to_solo in progress of p has not yet got through its touch of the
\* solo lock.
RLYieldWaiting(p) ==
    /\ rlOp[p] = "yield_to_solo"
    /\ \E i \in 1..Len(rlTodo[p]) : rlTodo[p][i].op = "touch"

RLOtherSolo(p) == \E q \in RLProcs \ {p} : rlLock[q][SoloLock] = "ex"

\* C16: a yield_to_solo called while another process holds the solo lock does
\* not return before that lock has been released (it stays before its touch of
\* the solo lock as long as another process holds it), and when it returns the
\* caller holds the running lock shared.
C16_YieldWaitsForSolo ==
    [][\A p \in RLProcs :
          /\ RLYieldWaiting(p) => rlOp'[p] = "yield_to_solo"
          /\ (RLYieldWaiting(p) /\ RLOtherSolo(p)) => RLYieldWaiting(p)'
          /\ RLYieldReturns(p) => rlLock'[p][RunningLock] = "sh"]_vars

\* A go_solo of p that passed its checks (level at or above the solo
\* threshold, not yet solo) is in progress.
RLGoingSolo(p) == rlOp[p] = "go_solo" /\ ~rlErr[p]

\* That go_solo is about to return with the solo lock and the exclusive
\* running lock held.
RLGoneSolo(p) ==
    /\ RLGoingSolo(p) /\ rlTodo[p] = <<>>
    /\ rlLock[p][SoloLock] = "ex" /\ rlLock[p][RunningLock] = "ex"

\* C17: when the peers keep yielding, solo holders end solo and the locks are
\* granted fairly, a go_solo called at or above the solo threshold eventually
\* returns with the solo lock and the exclusive running lock held.
C17_GoSoloCompletes ==
    \A p \in RLProcs : RLGoingSolo(p) ~> RLGoneSolo(p)

\* ------------------------------------------------------ ExecutionLock, cont.
\* p takes a step of its outermost exit.
ELExitStep(p) == elPc'[p] # elPc[p] /\ (elOp[p] = "exit" \/ elOp'[p] = "exit")

\* C18: the outermost exit unlinks the lock file iff the lock was acquired
\* exclusive.  An exit of an exclusive holder goes through the unlink, after
\* which no file is at the path until some process opens the path again; no
\* step of any other exit changes what is at the path.
C18_ExitUnlinksIffExclusive ==
    [][/\ \A p \in ELProcs :
            /\ (ELExitStep(p) /\ elPc[p] = "idle" /\ elFlock[p] = "ex") => elPc'[p] = "unlink"
            /\ (ELExitStep(p) /\ elPc[p] = "unlink") => (elFlock[p] = "ex" /\ elPath' = 0)
            /\ (ELExitStep(p) /\ elPc[p] # "unlink") => elPath' = elPath
       /\ (elPath = 0 /\ elPath' # 0) =>
              \E q \in ELProcs : elPc[q] = "open" /\ elPc'[q] = "flock"]_vars

\* C18 witness: an exclusive exit has unlinked the file, nothing is at the path.
C18_ExclusiveExitUnlinked ==
    \E p \in ELProcs :
        elOp[p] = "exit" /\ elPc[p] = "close" /\ elFlock[p] = "ex" /\ elPath = 0

\* ---------------------------------------------------- ExecutionCLock, cont.
\* C19: an enter that finds only stale lines writes a ledger holding its own
\* line alone; an exit that finds its own line alone rewrites the ledger to
\* nothing; and the rewrite of an exit leaves no file at the path iff the
\* rewritten ledger is empty.  Hence enter and then exit, with no activity of
\* others in between, leave no file at the path.
C19_ExitRemovesEmptyLedger ==
    [][\A p \in CLProcs :
          /\ (CLEditStep(p) /\ clOp[p] = "enter" /\ \A i \in 1..Len(clFile) : CLStale(clFile[i]))
                => (clNew'[p] = <<our_line(p)>> /\ clNewLocked'[p])
          /\ (CLEditStep(p) /\ clOp[p] = "exit" /\ clFile = <<our_line(p)>>)
                => clNew'[p] = <<>>
          /\ (CLCommitStep(p) /\ clOp[p] = "exit")
                => /\ clFile' = clNew[p] /\ ~clLocked'[p]
                   /\ (clPath' = 0 <=> clNew[p] = <<>>)]_vars

\* C19 witness: the exit of the only holder has just removed the file.
C19_FileRemoved ==
    \E p \in CLProcs :
        /\ clOp[p] = "exit" /\ clPc[p] = "finish" /\ clDepth[p] = 0
        /\ clPath = 0 /\ clFile = <<>>

\* ------------------------------------------------------------ set_lock_path
\* A set_lock_path call on the ExecutionLock / ExecutionCLock of p ends in this step.
ELSetPathStep(p) == el_path_call' # el_path_call /\ el_path_call'[1] = p
CLSetPathStep(p) == cl_path_call' # cl_path_call /\ cl_path_call'[1] = p

\* C20: set_lock_path on an instance that is locked or has _enter_count > 0
\* raises ExecLockError and leaves the lock path, the underlying lock and the
\* locked state unchanged; it is accepted only on an unlocked, unentered
\* instance.  In particular the path of a locked or entered instance never
\* changes.
C20_SetPathRefusedWhileHeld ==
    [][/\ \A p \in ELProcs :
            /\ (locked(p) \/ enter_count[p] > 0) => lock_path'[p] = lock_path[p]
            /\ ELSetPathStep(p) =>
                  IF locked(p) \/ enter_count[p] > 0
                  THEN /\ el_path_call'[2] = "raised"
                       /\ lock_path'[p] = lock_path[p] /\ locked(p)' = locked(p)
                       /\ elFd'[p] = elFd[p] /\ elFlock'[p] = elFlock[p]
                  ELSE el_path_call'[2] = "accepted"
       /\ \A p \in CLProcs :
            /\ (clLocked[p] \/ cl_enter_count[p] > 0) => cl_lock_path'[p] = cl_lock_path[p]
            /\ CLSetPathStep(p) =>
                  IF clLocked[p] \/ cl_enter_count[p] > 0
                  THEN /\ cl_path_call'[2] = "raised"
                       /\ cl_lock_path'[p] = cl_lock_path[p] /\ clLocked'[p] = clLocked[p]
                       /\ clFd'[p] = clFd[p] /\ clFlock'[p] = clFlock[p]
                  ELSE cl_path_call'[2] = "accepted"]_vars

\* C20 witness: set_lock_path has just been refused on a locked ExecutionLock
\* and on a locked ExecutionCLock.
C20_RefusedOnLocked ==
    /\ el_path_call = <<ELFirst, "raised">> /\ locked(ELFirst) /\ elPc[ELFirst] = "idle"
    /\ cl_path_call = <<CLFirst, "raised">> /\ clLocked[CLFirst] /\ clPc[CLFirst] = "idle"

\* ----------------------------------------------------------- ProcessID
\* The pairs of identities the ledger code compares while a ledger has lines:
\* a line's recorded identity against the one read back for its pid (with or
\* without its creation time), and against each instance's own.
CLLineId(i) == ProcessID(clFile[i].pid, clFile[i].ctime)
CLComparedPairs ==
    {<<from_pid(clFile[i].pid, r), CLLineId(i)>> : i \in 1..Len(clFile), r \in BOOLEAN}
    \cup {<<CLLineId(i), our_id(q)>> : i \in 1..Len(clFile), q \in CLProcs}

\* C22: two identities compare equal iff their pids match and either both
\* creation times are known and equal, or at least one of them is missing.
C22_EqualityTolerant ==
    \A pr \in CLComparedPairs :
        LET a == pr[1]
            b == pr[2]
        IN  ProcessID_eq(a, b) <=>
                /\ a.pid = b.pid
                /\ \/ (a.ctime # 0 /\ b.ctime # 0 /\ a.ctime = b.ctime)
                   \/ a.ctime = 0 \/ b.ctime = 0

\* ----------------------------------------------------------- waiting
\* The call in progress of p is about to wait for a level lock, for the solo
\* lock, or for the shared touch of the solo lock.
RLWaitsFor(p) ==
    /\ rlTodo[p] # <<>>
    /\ \/ RLHead(p).op = "acq" /\ RLHead(p).lock \in LevelLocks \cup {SoloLock}
       \/ RLHead(p).op = "touch"
RLBlocked(p) ==
    RLWaitsFor(p) /\ ~RLGrantable(p, RLHead(p).lock, RLHead(p).mode)

\* C26: a process never holds the running lock while it waits for a level
\* lock, for the solo lock, or (in yield_to_solo) for the shared touch of the
\* solo lock.
C26_NoRunningWhileWaiting ==
    \A p \in RLProcs : RLWaitsFor(p) => ~rl_locked(p, RunningLock)

\* Every kind of wait happens: one process is blocked on a level lock that is
\* full, or on the solo lock, or on the touch of the solo lock.
C26_BlockedOnLevel ==
    \E p \in RLProcs :
        /\ RLBlocked(p)
        /\ \/ RLHead(p).lock \in LevelLocks
           \/ rlOp[p] \in {"go_solo", "yield_to_solo"}

\* ----------------------------------------------------------- yield
\* p calls yield_to_solo at this step.
RLYieldCall(p) ==
    rlOp[p] = "none" /\ rlOp'[p] \in {"yield_to_solo", "yield_nothing"}

RLLevelCallDone(p) ==
    /\ rlOp[p] \in {"set_level", "level_enter", "level_exit"}
    /\ rlTodo[p] = <<>> /\ ~rlErr[p]

\* The highest level requested by the regions p is in: the level of its level
\* region and the level its solo region escalated to, as far as they are
\* still recorded (0 outside regions).
RLActiveRequest(p) ==
    IntMax(IF regionOpen[p] THEN IntMax(cmOpen[p], 0) ELSE 0,
           IF soloOpen[p] THEN IntMax(soloLvl[p], 0) ELSE 0)

\* C25: when a set_level call or a level-region entry / exit returns normally
\* on an instance that is not solo, the current level index is the maximum of
\* the last explicitly set level and the levels requested by the level regions
\* that are active.
C25_LevelIsMaxOfRequests ==
    \A p \in RLProcs :
        RLLevelCallDone(p) /\ ~rl_locked(p, SoloLock) =>
            current_ilevel(p) = IntMax(ilevel_last_set[p], RLActiveRequest(p))

\* ----------------------------------------------------------- outermost exit
\* C21: when the outermost exit of a RunLevelLock returns, the instance holds
\* none of the base, real-level, running and solo locks, whatever state it was
\* in before, and its current level is UNLOCKED.
C21_ExitReleasesAll ==
    \A p \in RLProcs :
        rlOp[p] = "exit" /\ rlTodo[p] = <<>> =>
            /\ \A l \in RLLocks : ~rl_locked(p, l)
            /\ current_ilevel(p) = 0

\* An outermost exit is under way for a caller that is inside a level region
\* and a solo region, in solo mode at the highest level.
C21_ExitFromSoloRegion ==
    \E p \in RLProcs :
        /\ rlOp[p] = "exit" /\ regionOpen[p] /\ soloOpen[p]
        /\ rl_locked(p, SoloLock)
        /\ current_ilevel(p) = NumLevels - 1

\* ----------------------------------------------------------- go_solo
\* C29: go_solo on an instance whose solo mode is disabled, or whose resulting
\* level is below the solo threshold, raises ExecLockError without acquiring
\* or releasing a lock; otherwise (on an entered instance) it escalates to the
\* resulting level and returns holding the level locks up to it, the solo
\* lock and the running lock exclusively.
C29_GoSoloAllOrNothing ==
    [][\A p \in RLProcs :
          /\ rlOp[p] = "none" /\ rlOp'[p] = "go_solo"
              /\ (~solo_enabled \/ (current_ilevel(p) < solo_ilevel /\ rlTodo'[p] = <<>>))
                => rlErr'[p]
          /\ rlOp[p] = "go_solo" /\ rlErr[p] => rlLock'[p] = rlLock[p]
          /\ rlOp[p] = "go_solo" /\ ~rlErr[p] /\ rlTodo[p] = <<>> =>
                /\ current_ilevel(p) = ilevel_last_set[p]
                /\ current_ilevel(p) >= solo_ilevel
                /\ rlLock[p][SoloLock] = "ex"
                /\ rlLock[p][RunningLock] = "ex"]_vars

\* ----------------------------------------------------------- failed escalation
\* The enter of a level lock has raised in the call of p, the ExitStack has
\* unwound, and the error is about to reach the caller.
RLFailedCallDone(p) == rlOp[p] = "acquire_failed" /\ rlTodo[p] = <<>>

\* C28: if acquiring the lock of level k fails during an escalation from
\* level index a, every level lock the call acquired is released before the
\* error propagates, and the instance is left holding exactly the levels
\* 1..a, a being its level index as before the call.
C28_FailedEscalationUnwinds ==
    \A p \in RLProcs :
        RLFailedCallDone(p) =>
            /\ \A l \in rlEntered[p] : ~rl_locked(p, l)
            /\ RLHeldLevels(p) = 1..current_ilevel(p)

\* ----------------------------------------------------------- ledger rewrite
\* p is inside a ledger rewrite: it has validated its internal lock and has
\* not yet completed the rename or unlink.
CLInRewrite(p) == clPc[p] \in {"edit", "commit", "swap"}

\* SIGTERM is acted upon in p at this step.
CLTermStep(p) == alive[p] /\ ~alive'[p] /\ clSignalled'[p]

\* C23: a signal of the deferred set (SIGTERM) delivered to a process that is
\* inside a ledger rewrite is not acted upon until the rewrite has completed.
C23_SignalWaitsForRewrite ==
    [][\A p \in CLProcs : CLTermStep(p) => ~CLInRewrite(p)]_vars

\* C30: the file at the ledger path changes only as a whole: it is created
\* empty, removed, or replaced in one step by the complete contents a writer
\* computed; never does it hold a part of them, also when writers are killed
\* at any step of a rewrite.
C30_LedgerReplacedWhole ==
    [][clFile' # clFile =>
          \/ clFile' = <<>>
          \/ \E p \in CLProcs :
                /\ clPc[p] = "swap" /\ clPc'[p] = "finish"
                /\ clFile' = clNew[p]]_vars

\* A writer was ended in the middle of writing the swap file, whose part
\* stays behind, while the ledger at the path has its lines.
C30_WriterKilledMidWrite ==
    /\ clSwap # <<>> /\ clFile # <<>>
    /\ \A p \in CLProcs : clPc[p] # "swap"

\* ----------------------------------------------------------- DeferSignals
\* The region has ended: __exit__ has returned or an exception has left it.
DSRegionLeft == ds_pc \in {"out", "raised"}

\* C24: signals of the list that arrive while the region is active do not
\* reach the previous handlers before the region exits or a drain-point call
\* is made; when the region has exited the previous handlers are restored and
\* every recorded signal has been re-raised exactly once, in the order of
\* arrival; a drain-point call returns with the deferral handlers installed
\* again and an empty queue.
C24_DeferredReplayedInOrder ==
    [][/\ ds_pc = "in" /\ ds_pc' = "in" => ds_direct' = ds_direct /\ ds_reraised' = ds_reraised
       /\ DSRegionLeft' =>
             /\ ds_handler' = DSRestored
             /\ ds_reraised' = ds_recorded'
       /\ ds_pc = "call" /\ ds_pc' = "in" =>
             /\ ds_handler' = DSInstalled
             /\ deferred' = <<>>]_vars



\* ensure_locked(want) of p returns in this step, the process not exiting.
ENSReturns(p, want) == ens_call[p] = want /\ ens_call'[p] = "none" /\ ens_last'[p] = want

\* C31: when the process is not unwinding an exit, the lock is held after
\* ensure_locked(true) returns and not held after ensure_locked(false)
\* returns, whatever the reentrance depth; a repeated call with the same
\* argument changes neither the lock nor the enter count.
C31_EnsureReconciles ==
    [][\A p \in ELProcs :
          /\ ENSReturns(p, "lock") => locked(p)'
          /\ ENSReturns(p, "unlock") => ~locked(p)'
          /\ (elPc[p] = "ensure" /\ ens_call[p] = ens_last[p]) =>
                (elFlock'[p] = elFlock[p] /\ enter_count'[p] = enter_count[p])]_vars

\* The non-blocking ExecutionLock enter of p is in progress.
ELTEntering(p) == elOp[p] = "enter" /\ ~blocking[p]

\* C32: a non-blocking enter always terminates: every enter in progress
\* eventually returns or raises ExecLockError, whatever the peers do, also
\* when each of its attempts obtains the flock and finds the lock stolen.
C32_NonBlockingEnterTerminates ==
    \A p \in ELProcs : ELTEntering(p) ~> ~ELTEntering(p)

\* The last update_max_counts call was accepted as far as its first item goes.
CapAccepted == rl_max_count[cap_call.lvl] = cap_call.value

\* The last update_max_counts call raised at its first item, changing nothing.
CapRejected == cap_call.raised /\ rl_max_count[cap_call.lvl] = cap_call.old

\* C33: update_max_counts on a level whose counted lock is held: with the
\* default options a lower cap raises ExecLockError and leaves the cap as it
\* was; a higher cap is accepted when allow_raise is true and refused when it
\* is false.  On a level whose lock is not held every cap is accepted.
C33_CapChangeOfHeldLock ==
    (cap_call.lvl # 0 /\ ~CapInvalid(cap_call.value)) =>
        /\ (cap_call.held /\ cap_call.error_if_locked /\ cap_call.allow_raise
               /\ cap_call.value < cap_call.old) => CapRejected
        /\ (cap_call.held /\ cap_call.error_if_locked /\ cap_call.value > cap_call.old) =>
               IF cap_call.allow_raise THEN CapAccepted ELSE CapRejected
        /\ ~cap_call.held => CapAccepted

\* C33 witness: with the default options, a lower cap was asked for a level
\* whose lock is held, and the call raised.
C33_LoweringRefused ==
    /\ cap_call.held /\ cap_call.error_if_locked /\ cap_call.allow_raise
    /\ cap_call.value >= 1 /\ cap_call.value < cap_call.old
    /\ cap_call.raised

\* m was registered inside n, directly or through nested parents.
RECURSIVE DCNestedIn(_, _)
DCNestedIn(m, n) ==
    IF dc_parent[m] = 0 THEN FALSE
    ELSE dc_parent[m] = n \/ DCNestedIn(dc_parent[m], n)

DCDescendants(n) == {m \in DCActive : DCNestedIn(m, n)}

\* The position of node n in the sequence of calls, 0 if it was not called.
DCCalledAt(calls, n) ==
    IF \E i \in 1..Len(calls) : calls[i] = n
    THEN CHOOSE i \in 1..Len(calls) : calls[i] = n
    ELSE 0

\* The calls made by the step: what it appended to dc_called.
DCNewCalls == SubSeq(dc_called', Len(dc_called) + 1, Len(dc_called'))

\* C34: closing a node calls the exit callbacks of all its recursive
\* descendants before its own, each exactly once, and leaves every other
\* node registered and uncalled; leaving the with-block calls all remaining
\* nodes in reverse registration order; a child is always called before its
\* parent and no callback is called twice.
C34_CloseCallsDescendantsFirst ==
    [][/\ \A n \in NodeIds : DC_close_node(n) =>
             /\ {DCNewCalls[i] : i \in 1..Len(DCNewCalls)} = DCDescendants(n) \cup {n}
             /\ Len(DCNewCalls) = Cardinality(DCDescendants(n) \cup {n})
             /\ DCNewCalls[Len(DCNewCalls)] = n
             /\ exit_nodes' = SelectSeq(exit_nodes,
                                  LAMBDA e : e.id \notin DCDescendants(n) \cup {n})
       /\ DC_exit =>
             /\ DCNewCalls = [k \in 1..Len(exit_nodes) |->
                                 exit_nodes[Len(exit_nodes) + 1 - k].id]
             /\ exit_nodes' = <<>>
       /\ \A m \in NodeIds :
             /\ Cardinality({i \in 1..Len(dc_called') : dc_called'[i] = m}) <= 1
             /\ (dc_parent'[m] # 0 /\ DCCalledAt(dc_called', dc_parent'[m]) # 0) =>
                   (DCCalledAt(dc_called', m) # 0
                      /\ DCCalledAt(dc_called', m) < DCCalledAt(dc_called', dc_parent'[m]))]_vars

\* C34 witness: a node with a child and a grandchild was closed while an
\* unrelated node stays registered and uncalled.
C34_SubtreeClosed ==
    \E n \in NodeIds, c \in NodeIds, g \in NodeIds, o \in NodeIds :
        /\ dc_parent[c] = n /\ dc_parent[g] = c
        /\ DCCalledAt(dc_called, g) # 0 /\ DCCalledAt(dc_called, n) # 0
        /\ o \in DCActive /\ DCCalledAt(dc_called, o) = 0
        /\ dc_entered

\* C35: an enter that raises leaves enter_count as it was before the call;
\* hence whenever no enter or exit of the instance is in progress,
\* enter_count > 0 implies that the lock is held.
C35_CountedMeansHeld ==
    [][\A p \in ELProcs :
          /\ (elOp[p] = "enter" /\ elOp'[p] = "none" /\ ~locked(p)') =>
                enter_count'[p] = enter_count[p] - 1
          /\ (elPc'[p] = "idle" /\ enter_count'[p] > 0) => locked(p)']_vars

\* C36: in every reachable state, also in the middle of an escalation, a
\* de-escalation and the unwinding of a failed escalation, the level locks an
\* instance holds form a prefix: if lock k is held, so is every lock below it
\* down to the base lock.
C36_HeldLevelsFormPrefix ==
    \A p \in RLProcs : \A k \in LevelLocks :
        rl_locked(p, k) => \A j \in 1..k : rl_locked(p, j)

\* C37: whenever no operation of the instance is in progress: a solo
\* instance holds the running lock exclusive; an instance that is not solo
\* holds the running lock, shared, if and only if its current level index is
\* at least the running threshold index.
C37_RunningMatchesLevel ==
    \A p \in RLProcs : RLAtRest(p) =>
        IF rl_locked(p, SoloLock)
        THEN rlLock[p][RunningLock] = "ex"
        ELSE /\ rl_locked(p, RunningLock) <=> current_ilevel(p) >= running_ilevel
             /\ rlLock[p][RunningLock] \in {"none", "sh"}

\* The next step of the call of p in progress is an enter or a touch of a
\* lock that is not granted now.
RLStuck(p) ==
    /\ rlTodo[p] # <<>> /\ RLHead(p).op \in {"acq", "touch"}
    /\ RLHead(p).lock \notin rlTaint[p]
    /\ ~RLGrantable(p, RLHead(p).lock, RLHead(p).mode)

\* The processes whose hold of the lock p waits for stands in the way.
RLBlockers(p) ==
    {q \in RLProcs \ {p} :
        IF RLHead(p).mode = "sh" THEN rlLock[q][RLHead(p).lock] = "ex"
        ELSE rl_locked(q, RLHead(p).lock)}

\* C38: no state is reachable in which a non-empty set of processes is
\* blocked for good, each of them waiting for a lock that only members of the
\* set hold (no deadlock), whatever order the level, solo, yield and exit
\* calls are made in.
C38_NoDeadlock ==
    \A S \in (SUBSET RLProcs) \ {{}} :
        ~(\A p \in S : RLStuck(p) /\ RLBlockers(p) \subseteq S)

\* C38 witness: a process waits for a lock that a peer holds, while the
\* call in progress of the peer goes on to wait for a lock the first process
\* holds: the peer releases what it holds before it waits.
C38_WaitingOnBusyPeer ==
    \E p \in RLProcs : \E q \in RLProcs \ {p} :
        /\ RLStuck(p) /\ q \in RLBlockers(p)
        /\ rlOp[q] # "none"
        /\ \E i \in 1..Len(rlTodo[q]) :
              /\ rlTodo[q][i].op \in {"acq", "touch"}
              /\ rlLock[p][rlTodo[q][i].lock] = "ex"
\* The level-request state of p: the last explicitly set level and the
\* entries of the map of region requests (the open level region, the solo
\* region's escalation, entries left behind by regions no longer active).
RLRequestState(p) == <<ilevel_last_set[p], cmOpen[p], cmDead[p], soloLvl[p]>>

\* The step is a set_level call or a level-region entry of p that raises
\* ExecLockError because the instance is solo.
RLRejectedInSolo(p) ==
    /\ rlOp[p] = "none" /\ rlOp'[p] \in {"set_level", "level_enter"}
    /\ rl_locked(p, SoloLock) /\ rl_enter_count[p] > 0
    /\ rlErr'[p]

\* C39: a set_level call or a level-region entry that is rejected because the
\* instance is solo leaves the last explicitly set level and the map of
\* region requests as they were before the call.
C39_RejectedLeavesRequests ==
    [][\A p \in RLProcs : RLRejectedInSolo(p) => RLRequestState(p)' = RLRequestState(p)]_vars

\* C40: when the exit of a level region returns, the instance as solo or not
\* as it was at the entry, it holds the level locks it held just before the
\* region was entered (and so is at that level), also when go_solo and
\* end_solo or a solo region were executed inside the region.
C40_RegionRestoresLevel ==
    \A p \in RLProcs :
        /\ rlOp[p] = "level_exit" /\ rlTodo[p] = <<>> /\ ~rlErr[p]
        /\ rl_locked(p, SoloLock) = region_from[p].solo
        => HeldLevels(p) = region_from[p].held

==============================================================================
